---- MODULE Spec2Model ----
(***************************************************************************)
(* nanocom: the byte queue (queue.c), the telnet stream processor          *)
(* (telnet.c) and the callers in nanocom.c that connect them.              *)
(*                                                                         *)
(* Specifications:                                                         *)
(*   SpecQueue  putq / getq / delq / dequeue / enqueue on one queue        *)
(*   SpecGrow   the same queue with puts that make the buffer grow         *)
(*   Spec       the telnet processor driven byte by byte (rx_telnet,       *)
(*              tx_telnet through its caller, resize_telnet, dequeue)      *)
(*   SpecNaws   the same processor with a wide range of window sizes       *)
(*   SpecRT     a console byte sequence encoded, then decoded              *)
(*   SpecConnect  doconnect and main's loop: connect, failure, reconnect   *)
(*   SpecLoop   main's loop and the loop of run() with short reads         *)
(*   SpecStart  the start command of -x / -X across reconnects             *)
(*   SpecFlow   the loop of run() with reads that fill the queues          *)
(*   SpecExit   run() after its loop: the flushes and the reaping          *)
(*   SpecExitFair  SpecExit, the program taking a step whenever it can     *)
(*   SpecWinch  main's loop with SIGWINCH arriving between its steps       *)
(***************************************************************************)
EXTENDS Integers, Sequences, FiniteSets

VARIABLES
    qtarget,    \* queue: head, count, size and the bytes of the live cells
    ctx,        \* telnet context (struct context of telnet.c)
    last,       \* the last operation: its name, inputs, result and the state before it
    nput,       \* SpecQueue: bytes put since the queue was last empty
    ngot,       \* SpecQueue: bytes removed since the queue was last empty
    tt,         \* progress of IAC SB TTYPE <cmd> IAC SE through consecutive rx_telnet calls
    script,     \* SpecRT: the console bytes to encode
    wire,       \* SpecRT: the encoded stream as written to the target
    pos,        \* SpecRT: next index of script (encoding) or wire (decoding)
    sts,        \* SpecRT, SpecRx: ctx.state before each byte of wire was decoded
    rets,       \* SpecRT, SpecRx: what rx_telnet returned for each byte of wire
    pc,         \* where the program is: the loop and the handler about to run
    nc,         \* nanocom.c: its globals and the locals of run() that outlive one loop pass
    qcmdin,     \* nanocom.c, run(): queue of bytes for the command's stdin
    p           \* nanocom.c: the pollfd array of the current loop pass

vars == <<qtarget, ctx, last, nput, ngot, tt, script, wire, pos, sts, rets, pc, nc, qcmdin, p>>

\* The variables of nanocom.c's loops
loopvars == <<nc, qcmdin, p>>

----------------------------------------------------------------------------
(* Bounds *)

\* SpecQueue: no more than this many bytes are put between two empty queues
MaxBytes == 2400
\* Spec, SpecNaws: a telnet call is made only while at most this many bytes wait in qtarget
MaxPending == 1
\* SpecRT: longest console byte sequence
MaxLen == 4
\* SpecConnect, SpecLoop: poll reports a descriptor to read only while each
\* queue holds at most this many bytes
MaxHeld == 1
\* SpecFlow: poll reports a descriptor to read only while qtarget holds at most
\* this many bytes
MaxFill == 4200
\* SpecExit: realloc fails for a buffer of more than this many bytes
MaxAlloc == 4096

----------------------------------------------------------------------------
(* queue.c *)

\* first allocation of putq
InitialSize == 1024

\* The content of a cell that realloc added and nothing stored. A read of
\* such a cell gives whatever byte the allocator left there: Indeterminate, in
\* a cell or in the bytes read from it, stands for any of 0 .. 255, each cell
\* on its own and unrelated to its neighbours.
Indeterminate == -1

\* queue q = {0}
EmptyQueue == [head |-> 0, count |-> 0, size |-> 0, data |-> <<>>]

\* The doubling stopped as soon as the bytes fit, with no cell to spare
RECURSIVE Doubled_to_fit(_, _)
Doubled_to_fit(size, need) ==
    IF size < need THEN Doubled_to_fit(size * 2, need) ELSE size

\* while (q->size <= q->count + count) q->size *= 2;
RECURSIVE Doubled(_, _)
Doubled(size, need) ==
    IF size <= need THEN Doubled(size * 2, need) ELSE size

\* The buffer grown only when the bytes would not fit at all
GrownSize_when_short(q, n) ==
    IF q.size < q.count + n
    THEN Doubled(IF q.size = 0 THEN InitialSize ELSE q.size, q.count + n)
    ELSE q.size

\* The size putq leaves: unchanged unless size <= count + n
GrownSize(q, n) ==
    IF q.size <= q.count + n
    THEN Doubled(IF q.size = 0 THEN InitialSize ELSE q.size, q.count + n)
    ELSE q.size

\* The cells of the live window: head .. head+count-1, wrapping at size
Window(head, count, size) ==
    IF head + count <= size THEN head .. head + count - 1
    ELSE (head .. size - 1) \cup (0 .. head + count - size - 1)

\* putq. realloc keeps data[0 .. oldsize-1] where it was and adds cells whose
\* content is indeterminate; byte i is then stored at (head + count) % size.
\* data holds the cells of the live window only: no code reads a cell outside
\* it, and a cell enters the window only by this store or by a growth.
putq(q, bytes) ==
    LET n == Len(bytes)
        size == GrownSize(q, n)
    IN  [head |-> q.head,
         count |-> q.count + n,
         size |-> size,
         data |-> [j \in Window(q.head, q.count + n, size) |->
                     LET k == (j - q.head) % size
                     IN  IF k >= q.count THEN bytes[k - q.count + 1]
                         ELSE IF j < q.size /\ (j - q.head) % q.size < q.count
                         THEN q.data[j]
                         ELSE Indeterminate]]

\* getq pointing at one byte only
getq_single(q) ==
    IF q.count = 0 THEN 0 ELSE 1

\* getq: length of the monolithic chunk at data + head, 0 if the queue is empty
getq(q) ==
    IF q.count = 0 THEN 0
    ELSE IF q.size - q.head > q.count THEN q.count ELSE q.size - q.head

\* The chunk getq points at: the cells data[head .. head + n - 1] as they are,
\* the never-stored ones Indeterminate
Chunk(q) ==
    [i \in 1 .. getq(q) |-> q.data[q.head + i - 1]]

\* The queue with count bytes (fewer than it holds) removed from the front
Advanced(q, count) ==
    [head |-> (q.head + count) % q.size,
     count |-> q.count - count,
     size |-> q.size,
     data |-> [j \in Window((q.head + count) % q.size, q.count - count, q.size) |-> q.data[j]]]

\* delq whose full drain leaves head where it was
delq_keeps_head(q, count) ==
    IF count = 0 THEN q
    ELSE IF count < 0 \/ count >= q.count
    THEN [q EXCEPT !.count = 0, !.data = <<>>]
    ELSE Advanced(q, count)

\* delq: remove count bytes from the front; count < 0 or count >= q->count empties
delq(q, count) ==
    IF count = 0 THEN q
    ELSE IF count < 0 \/ count >= q.count
    THEN [q EXCEPT !.head = 0, !.count = 0, !.data = <<>>]
    ELSE Advanced(q, count)

\* dequeue dropping the whole chunk whenever write took some of it
dequeue_whole_chunk(q, r) ==
    IF getq(q) = 0 THEN q
    ELSE IF r > 0 THEN delq(q, getq(q)) ELSE q

\* dequeue, given the result r of write(fd, p, n): the queue it leaves
dequeue(q, r) ==
    IF getq(q) = 0 THEN q
    ELSE IF r > 0 THEN delq(q, r) ELSE q

\* freeq: delq(q, -1); free(q->data); q->data = NULL. size stays as it was
freeq(q) ==
    delq(q, -1)

\* unsigned char buffer[256] of enqueue
BufferSize == 256

\* enqueue, given the result r of read(fd, &buffer, sizeof buffer) and the
\* bytes it left in buffer: the queue it leaves (r is what it returns)
enqueue(q, r, buffer) ==
    IF r > 0 THEN putq(q, SubSeq(buffer, 1, r)) ELSE q

\* The queued bytes in logical order, as data[(head + i) % size] holds them
Contents(q) ==
    [i \in 1 .. q.count |-> q.data[(q.head + i - 1) % q.size]]

----------------------------------------------------------------------------
(* telnet.c *)

NUL == 0
CR == 13

SB == 250
SE == 240
WILL == 251
WONT == 252
DO == 253
DONT == 254
IAC == 255

\* Derived states
SBX == 256
SBTT == 512

BINARY == 0
SECHO == 1
SGA == 3
TTYPE == 24
NAWS == 31

\* char *termtype: a C string is its bytes and the terminating NUL; NULL points at nothing
NULL == <<>>

\* strlen
RECURSIVE strlen(_)
strlen(s) ==
    IF Head(s) = NUL THEN 0 ELSE 1 + strlen(Tail(s))

\* Consecutive putq calls on the same queue
RECURSIVE putall(_, _)
putall(q, chunks) ==
    IF chunks = <<>> THEN q ELSE putall(putq(q, Head(chunks)), Tail(chunks))

\* A context that starts as if IAC DO had been received
init_telnet_mid_command(binary, termtype) ==
    [binary |-> binary, termtype |-> termtype, initialized |-> FALSE, state |-> DO,
     wascr |-> FALSE, willnaws |-> FALSE, donaws |-> FALSE,
     hicols |-> 0, locols |-> 0, hirows |-> 0, lorows |-> 0]

\* init_telnet: calloc'd context with binary and termtype set
init_telnet(binary, termtype) ==
    [binary |-> binary, termtype |-> termtype, initialized |-> FALSE, state |-> 0,
     wascr |-> FALSE, willnaws |-> FALSE, donaws |-> FALSE,
     hicols |-> 0, locols |-> 0, hirows |-> 0, lorows |-> 0]

\* naws() without the doubling of a payload byte that is IAC
naws_byte_plain(b) ==
    <<b>>

\* One line of naws(): a payload byte, doubled if it is IAC
naws_byte(b) ==
    IF b = IAC THEN <<IAC, IAC>> ELSE <<b>>

\* naws: send window size to server
naws(c, q) ==
    putall(q, << <<IAC, SB, NAWS>>,
                 naws_byte(c.hicols), naws_byte(c.locols),
                 naws_byte(c.hirows), naws_byte(c.lorows),
                 <<IAC, SE>> >>)

\* tx_telnet that leaves IAC to the caller, undoubled
tx_telnet_plain_iac(c_, q, c) ==
    IF ~c_.binary /\ c = CR THEN [q |-> putq(q, <<CR, NUL>>), ret |-> FALSE]
    ELSE [q |-> q, ret |-> TRUE]

\* tx_telnet: the queue it leaves and whether the caller should send c itself
tx_telnet(c_, q, c) ==
    IF c = IAC THEN [q |-> putq(q, <<IAC, IAC>>), ret |-> FALSE]
    ELSE IF ~c_.binary /\ c = CR THEN [q |-> putq(q, <<CR, NUL>>), ret |-> FALSE]
    ELSE [q |-> q, ret |-> TRUE]

\* tx_telnet noting in wascr that the byte sent was a CR
tx_context_marks_cr(c_, c) ==
    [c_ EXCEPT !.wascr = (~c_.binary /\ c = CR)]

\* The context tx_telnet leaves: it reads ctx->binary and assigns no field
tx_context(c_, c) ==
    c_

\* Initial requests that offer WILL NAWS whether or not willnaws is set
initial_requests_naws_always(c_, q) ==
    putall(q,
        << <<IAC, DO, SGA>>, <<IAC, WILL, SGA>> >>
        \o (IF c_.termtype # NULL THEN << <<IAC, WILL, TTYPE>> >> ELSE <<>>)
        \o << <<IAC, DO, SECHO>> >>
        \o (IF c_.binary THEN << <<IAC, DO, BINARY>>, <<IAC, WILL, BINARY>> >> ELSE <<>>)
        \o << <<IAC, WILL, NAWS>> >>)

\* The initial requests of rx_telnet's case IAC, sent while !initialized
initial_requests(c_, q) ==
    putall(q,
        << <<IAC, DO, SGA>>, <<IAC, WILL, SGA>> >>
        \o (IF c_.termtype # NULL THEN << <<IAC, WILL, TTYPE>> >> ELSE <<>>)
        \o << <<IAC, DO, SECHO>> >>
        \o (IF c_.binary THEN << <<IAC, DO, BINARY>>, <<IAC, WILL, BINARY>> >> ELSE <<>>)
        \o (IF c_.willnaws THEN << <<IAC, WILL, NAWS>> >> ELSE <<>>))

\* case 0 that swallows whatever byte follows a CR, not only NUL
rx_ground_swallows_after_cr(c_, q, c) ==
    IF c = IAC THEN [ctx |-> [c_ EXCEPT !.state = IAC], q |-> q, ret |-> FALSE]
    ELSE IF ~c_.binary
    THEN IF c_.wascr
         THEN [ctx |-> [c_ EXCEPT !.wascr = FALSE], q |-> q, ret |-> FALSE]
         ELSE [ctx |-> [c_ EXCEPT !.wascr = (c = CR)], q |-> q, ret |-> TRUE]
    ELSE [ctx |-> c_, q |-> q, ret |-> TRUE]

\* rx_telnet case 0
rx_ground(c_, q, c) ==
    IF c = IAC THEN [ctx |-> [c_ EXCEPT !.state = IAC], q |-> q, ret |-> FALSE]
    ELSE IF ~c_.binary
    THEN IF c = NUL /\ c_.wascr
         THEN [ctx |-> [c_ EXCEPT !.wascr = FALSE], q |-> q, ret |-> FALSE]
         ELSE [ctx |-> [c_ EXCEPT !.wascr = (c = CR)], q |-> q, ret |-> TRUE]
    ELSE [ctx |-> c_, q |-> q, ret |-> TRUE]

\* case IAC that sends the initial requests without setting initialized
rx_iac_unmarked(c_, q, c) ==
    IF c = IAC THEN [ctx |-> [c_ EXCEPT !.state = 0], q |-> q, ret |-> TRUE]
    ELSE LET st == IF c \in {SB, WILL, WONT, DO, DONT} THEN c ELSE 0
         IN  IF ~c_.initialized
             THEN [ctx |-> [c_ EXCEPT !.state = st],
                   q |-> initial_requests(c_, q), ret |-> FALSE]
             ELSE [ctx |-> [c_ EXCEPT !.state = st], q |-> q, ret |-> FALSE]

\* rx_telnet case IAC
rx_iac(c_, q, c) ==
    IF c = IAC THEN [ctx |-> [c_ EXCEPT !.state = 0], q |-> q, ret |-> TRUE]
    ELSE LET st == IF c \in {SB, WILL, WONT, DO, DONT} THEN c ELSE 0
         IN  IF ~c_.initialized
             THEN [ctx |-> [c_ EXCEPT !.state = st, !.initialized = TRUE],
                   q |-> initial_requests(c_, q), ret |-> FALSE]
             ELSE [ctx |-> [c_ EXCEPT !.state = st], q |-> q, ret |-> FALSE]

\* case WILL that refuses the server's echo
rx_will_refuses_echo(c_, q, c) ==
    IF c = SGA \/ (c = BINARY /\ c_.binary)
    THEN [ctx |-> [c_ EXCEPT !.state = 0], q |-> q, ret |-> FALSE]
    ELSE [ctx |-> [c_ EXCEPT !.state = 0], q |-> putq(q, <<IAC, DONT, c>>), ret |-> FALSE]

\* rx_telnet case WILL
rx_will(c_, q, c) ==
    IF c \in {SGA, SECHO} \/ (c = BINARY /\ c_.binary)
    THEN [ctx |-> [c_ EXCEPT !.state = 0], q |-> q, ret |-> FALSE]
    ELSE [ctx |-> [c_ EXCEPT !.state = 0], q |-> putq(q, <<IAC, DONT, c>>), ret |-> FALSE]

\* DO NAWS accepted whether or not WILL NAWS was offered
rx_do_naws_unasked(c_, q) ==
    [ctx |-> [c_ EXCEPT !.state = 0, !.donaws = TRUE], q |-> naws(c_, q), ret |-> FALSE]

\* rx_telnet case DO, case NAWS: if (!ctx->willnaws) goto wont; ctx->donaws = true;
\* naws(ctx);
rx_do_naws(c_, q) ==
    IF c_.willnaws
    THEN [ctx |-> [c_ EXCEPT !.state = 0, !.donaws = TRUE], q |-> naws(c_, q), ret |-> FALSE]
    ELSE [ctx |-> [c_ EXCEPT !.state = 0], q |-> putq(q, <<IAC, WONT, NAWS>>), ret |-> FALSE]

\* case DO that agrees to send a terminal type it does not have
rx_do_any_ttype(c_, q, c) ==
    IF c = SGA \/ (c = BINARY /\ c_.binary) \/ c = TTYPE
    THEN [ctx |-> [c_ EXCEPT !.state = 0], q |-> q, ret |-> FALSE]
    ELSE IF c = NAWS THEN rx_do_naws(c_, q)
    ELSE [ctx |-> [c_ EXCEPT !.state = 0], q |-> putq(q, <<IAC, WONT, c>>), ret |-> FALSE]

\* rx_telnet case DO
rx_do(c_, q, c) ==
    IF c = SGA \/ (c = BINARY /\ c_.binary) \/ (c = TTYPE /\ c_.termtype # NULL)
    THEN [ctx |-> [c_ EXCEPT !.state = 0], q |-> q, ret |-> FALSE]
    ELSE IF c = NAWS THEN rx_do_naws(c_, q)
    ELSE [ctx |-> [c_ EXCEPT !.state = 0], q |-> putq(q, <<IAC, WONT, c>>), ret |-> FALSE]

\* case SB that hands the first suboption byte to the caller
rx_sb_delivers(c_, q, c) ==
    [ctx |-> [c_ EXCEPT !.state = IF c = IAC THEN SE
                                 ELSE IF c = TTYPE /\ c_.termtype # NULL THEN SBTT
                                 ELSE SBX],
     q |-> q, ret |-> TRUE]

\* rx_telnet case SB
rx_sb(c_, q, c) ==
    [ctx |-> [c_ EXCEPT !.state = IF c = IAC THEN SE
                                 ELSE IF c = TTYPE /\ c_.termtype # NULL THEN SBTT
                                 ELSE SBX],
     q |-> q, ret |-> FALSE]

\* case SBTT that sends the terminal type with its terminating NUL
rx_sbtt_with_nul(c_, q, c) ==
    IF c = IAC THEN [ctx |-> [c_ EXCEPT !.state = SE], q |-> q, ret |-> FALSE]
    ELSE IF c = 1
    THEN [ctx |-> [c_ EXCEPT !.state = SBX],
          q |-> putall(q, << <<IAC, SB, TTYPE, 0>>,
                             SubSeq(c_.termtype, 1, strlen(c_.termtype) + 1),
                             <<IAC, SE>> >>),
          ret |-> FALSE]
    ELSE [ctx |-> [c_ EXCEPT !.state = SBX], q |-> q, ret |-> FALSE]

\* rx_telnet case SBTT
rx_sbtt(c_, q, c) ==
    IF c = IAC THEN [ctx |-> [c_ EXCEPT !.state = SE], q |-> q, ret |-> FALSE]
    ELSE IF c = 1
    THEN [ctx |-> [c_ EXCEPT !.state = SBX],
          q |-> putall(q, << <<IAC, SB, TTYPE, 0>>,
                             SubSeq(c_.termtype, 1, strlen(c_.termtype)),
                             <<IAC, SE>> >>),
          ret |-> FALSE]
    ELSE [ctx |-> [c_ EXCEPT !.state = SBX], q |-> q, ret |-> FALSE]

\* cases DONT and WONT that confirm the refusal
rx_wont_confirms(c_, q, c) ==
    [ctx |-> [c_ EXCEPT !.state = 0], q |-> putq(q, <<IAC, WONT, c>>), ret |-> FALSE]

\* rx_telnet case DONT, case WONT
rx_wont(c_, q, c) ==
    [ctx |-> [c_ EXCEPT !.state = 0], q |-> q, ret |-> FALSE]

\* case SE that ends the suboption on any byte after IAC
rx_se_any(c_, q, c) ==
    [ctx |-> [c_ EXCEPT !.state = 0], q |-> q, ret |-> FALSE]

\* rx_telnet case SE
rx_se(c_, q, c) ==
    [ctx |-> [c_ EXCEPT !.state = IF c = SE THEN 0 ELSE SBX], q |-> q, ret |-> FALSE]

\* rx_telnet: the context and queue it leaves and whether the caller should handle c
rx_telnet(c_, q, c) ==
    CASE c_.state = 0 -> rx_ground(c_, q, c)
      [] c_.state = IAC -> rx_iac(c_, q, c)
      [] c_.state = WILL -> rx_will(c_, q, c)
      [] c_.state = DO -> rx_do(c_, q, c)
      [] c_.state \in {DONT, WONT} -> rx_wont(c_, q, c)
      [] c_.state = SB -> rx_sb(c_, q, c)
      [] c_.state = SBTT -> rx_sbtt(c_, q, c)
      [] c_.state = SBX ->
            [ctx |-> [c_ EXCEPT !.state = IF c = IAC THEN SE ELSE SBX],
             q |-> q, ret |-> FALSE]
      [] c_.state = SE -> rx_se(c_, q, c)
      [] OTHER -> [ctx |-> c_, q |-> q, ret |-> FALSE]

\* The clamp without its upper limit
clamp_unbounded(v, lo) ==
    IF v < lo THEN lo ELSE v

\* if (cols < 8) cols = 8; else if (cols > 65535) cols = 65535;
clamp(v, lo) ==
    IF v < lo THEN lo ELSE IF v > 65535 THEN 65535 ELSE v

\* resize_telnet offering WILL NAWS on its first call whether or not the
\* session is initialized
resize_telnet_eager(c_, q, cols, rows) ==
    LET w == clamp(cols, 8)
        h == clamp(rows, 2)
        sized == [c_ EXCEPT !.hicols = w \div 256, !.locols = w % 256,
                            !.hirows = h \div 256, !.lorows = h % 256]
    IN  IF ~c_.willnaws
        THEN [ctx |-> [sized EXCEPT !.willnaws = TRUE],
              q |-> putq(q, <<IAC, WILL, NAWS>>)]
        ELSE IF c_.donaws
        THEN [ctx |-> sized, q |-> naws(sized, q)]
        ELSE [ctx |-> sized, q |-> q]

\* resize_telnet: the context and queue it leaves
resize_telnet(c_, q, cols, rows) ==
    LET w == clamp(cols, 8)
        h == clamp(rows, 2)
        sized == [c_ EXCEPT !.hicols = w \div 256, !.locols = w % 256,
                            !.hirows = h \div 256, !.lorows = h % 256]
    IN  IF ~c_.willnaws
        THEN [ctx |-> [sized EXCEPT !.willnaws = TRUE],
              q |-> IF c_.initialized THEN putq(q, <<IAC, WILL, NAWS>>) ELSE q]
        ELSE IF c_.donaws
        THEN [ctx |-> sized, q |-> naws(sized, q)]
        ELSE [ctx |-> sized, q |-> q]

----------------------------------------------------------------------------
(* nanocom.c *)

\* The caller putting the byte whatever tx_telnet returned
send_regardless(c_, q, c) ==
    putq(tx_telnet(c_, q, c).q, <<c>>)

\* if (!telnet || tx_telnet(tctx, bf[i])) putq(&qtarget, &bf[i], 1);  with telnet on
send(c_, q, c) ==
    LET t == tx_telnet(c_, q, c)
    IN  IF t.ret THEN putq(t.q, <<c>>) ELSE t.q


BS == 8
LF == 10
DEL == 127
\* command character is '^\'
COMMAND == 28

\* sizeof bf: the most one read() in a loop returns
BufSize == 1024
\* a producer is polled only while its queue holds fewer bytes than this
HighWater == 4096

\* The keys of the command menu: b e q r s S x \ and ?
KeyB == 98
KeyE == 101
KeyQ == 113
KeyR == 114
KeyS == 115
KeyShiftS == 83
KeyX == 120
KeyBackslash == 92
KeyHelp == 63

\* What key(5000) in command() can give besides a key. KeyDied: the wait or
\* the read failed (the console hung up), key() dies. KeyWinch: SIGWINCH ran
\* set_sigwinch during the wait and poll returned EINTR, key() dies. HelpDied,
\* HelpWinch: the key was ? (or the wait timed out), and the same happened in
\* the key(5000) that follows the help text.
KeyDied == -1
KeyWinch == -2
HelpDied == -3
HelpWinch == -4

\* The waits that SIGWINCH ended: only with its handler installed, that is
\* with telnet on; without a handler the signal is ignored
Interrupted == {KeyWinch, HelpWinch}

\* command(), the menu key being k (key(5000) ?: '?' makes a timeout the key ?).
\* g: the globals it leaves; ret: its value; then: "return", or "exit" for q
\* (exit(0)), or "run" for x while no FX command runs (run(NULL)), or "die"
\* when key() dies (exit(1))
command(g, k) ==
    CASE k \in {KeyDied, HelpDied} -> [g |-> g, ret |-> 0, then |-> "die"]
      [] k \in Interrupted -> [g |-> [g EXCEPT !.sigwinch = TRUE], ret |-> 0, then |-> "die"]
      [] k = KeyB -> [g |-> [g EXCEPT !.bskey = ~@], ret |-> 0, then |-> "return"]
      [] k = KeyE -> [g |-> [g EXCEPT !.enterkey = ~@], ret |-> 0, then |-> "return"]
      [] k = KeyQ -> [g |-> g, ret |-> 0, then |-> "exit"]
      [] k = KeyR -> [g |-> [g EXCEPT !.reconnect = ~@], ret |-> 0, then |-> "return"]
      [] k = KeyS -> [g |-> [g EXCEPT !.timestamp = IF @ = 0 THEN 1 ELSE 0, !.sigwinch = TRUE],
                      ret |-> 0, then |-> "return"]
      [] k = KeyShiftS -> [g |-> [g EXCEPT !.timestamp = IF @ # 2 THEN 2 ELSE 0, !.sigwinch = TRUE],
                           ret |-> 0, then |-> "return"]
      [] k = KeyX -> IF g.running THEN [g |-> g, ret |-> -1, then |-> "return"]
                     ELSE [g |-> g, ret |-> 0, then |-> "run"]
      [] k = KeyBackslash -> [g |-> g, ret |-> 1, then |-> "return"]
      [] OTHER -> [g |-> g, ret |-> 0, then |-> "return"]

\* #define availq(q) ((q)->count)
availq(q) == q.count

\* The bytes of a list of chunks, in order
RECURSIVE Flat(_, _, _)
Flat(chunks, lo, hi) ==
    IF lo > hi THEN <<>>
    ELSE IF lo = hi THEN chunks[lo]
    ELSE Flat(chunks, lo, (lo + hi) \div 2) \o Flat(chunks, (lo + hi) \div 2 + 1, hi)

\* One putq call per chunk, chunks lo .. hi in order. Calls that do not make
\* the buffer grow store the cells that one putq of all their bytes stores, so
\* a run of chunks that fits is put at once; a single chunk is always one call.
RECURSIVE putq_calls(_, _, _, _)
putq_calls(q, chunks, lo, hi) ==
    IF lo > hi THEN q
    ELSE IF lo = hi THEN putq(q, chunks[lo])
    ELSE IF q.count + Len(Flat(chunks, lo, hi)) < q.size THEN putq(q, Flat(chunks, lo, hi))
    ELSE LET left == putq_calls(q, chunks, lo, (lo + hi) \div 2)
         IN  putq_calls(left, chunks, (lo + hi) \div 2 + 1, hi)

\* for (i = 0; i < n; i++) putq(q, bf+i, 1);
putq_each(q, bf) ==
    putq_calls(q, [i \in 1 .. Len(bf) |-> <<bf[i]>>], 1, Len(bf))

\* if (!telnet || tx_telnet(tctx, c)) putq(&qtarget, &c, 1);
forward(telnet, c_, q, c) ==
    IF telnet = 0 THEN putq(q, <<c>>) ELSE send(c_, q, c)

\* The switch of main's console handler for a key c other than COMMAND
console_key(g, c_, q, c) ==
    CASE c \in {BS, DEL} -> putq(q, <<IF g.bskey THEN DEL ELSE BS>>)
      [] c = LF -> IF g.enterkey THEN putq(q, <<LF>>) ELSE forward(g.telnet, c_, q, CR)
      [] c = 0 \/ c = CR \/ c \in 128 .. 255 -> q
      [] OTHER -> putq(q, <<c>>)

\* The bytes of the one putq call that forward makes for c
forwarded(telnet, c_, c) ==
    Contents(forward(telnet, c_, EmptyQueue, c))

\* cmdout2qtarget after read() returned the bytes bf: forward each byte in turn
forward_each(telnet, c_, q, bf) ==
    putq_calls(q, [i \in 1 .. Len(bf) |-> forwarded(telnet, c_, bf[i])], 1, Len(bf))

\* The condition taken as true for every byte, the telnet ones included
receive_unfiltered(telnet, c_, q, c) ==
    IF telnet = 0 THEN [ctx |-> c_, q |-> q, ret |-> TRUE]
    ELSE [rx_telnet(c_, q, c) EXCEPT !.ret = TRUE]

\* if (!telnet || rx_telnet(tctx, c)): the context and qtarget it leaves, and its value
receive(telnet, c_, q, c) ==
    IF telnet = 0 THEN [ctx |-> c_, q |-> q, ret |-> TRUE] ELSE rx_telnet(c_, q, c)

\* for (i = 0; i < n; i++) if (!telnet || rx_telnet(tctx, bf[i])) ...: bytes lo .. hi
\* of bf in turn; rets[i] is the value of the condition for byte i
RECURSIVE receive_each(_, _, _, _, _, _)
receive_each(telnet, c_, q, bf, lo, hi) ==
    IF lo > hi THEN [ctx |-> c_, q |-> q, rets |-> <<>>]
    ELSE IF lo = hi
    THEN LET r == receive(telnet, c_, q, bf[lo])
         IN  [ctx |-> r.ctx, q |-> r.q, rets |-> <<r.ret>>]
    ELSE LET left == receive_each(telnet, c_, q, bf, lo, (lo + hi) \div 2)
             right == receive_each(telnet, left.ctx, left.q, bf, (lo + hi) \div 2 + 1, hi)
         IN  [rets |-> left.rets \o right.rets, ctx |-> right.ctx, q |-> right.q]

\* The globals of nanocom.c after main has read the options, and the locals of
\* run() that the loop passes share. target: 0 before the first connect, -1 after
\* a failed attempt, else the descriptor; open: target names an open descriptor
\* (connected and not yet closed). kind: what targetname names,
\* "device" (it holds a '/') or "socket". caller: where run() was called from;
\* frame: the pollfd array of main while run(), which has its own, executes.
\* status: the exit status once the process has ended. again: doconnect found
\* target set, so this is a reconnect. term: what getenv("TERM") returns.
\* teename: -f was given; teefd: the descriptor of the tee file, 0 while it is
\* not open.
Globals(kind, telnet, reconnect, start, restart, bskey, enterkey, timestamp, teename) ==
    [kind |-> kind, target |-> 0, open |-> FALSE, again |-> FALSE,
     reconnect |-> reconnect, enterkey |-> enterkey,
     bskey |-> bskey, timestamp |-> timestamp, telnet |-> telnet, start |-> start,
     restart |-> restart, sigwinch |-> FALSE, running |-> FALSE, aborted |-> FALSE,
     caller |-> "none", frame |-> <<>>, status |-> 0, term |-> NULL,
     teename |-> teename, teefd |-> 0]

\* struct pollfd p[]: events holds the indexes of the entries whose fd is not -1,
\* revents those that poll reported
Polled(events, revents) ==
    [events |-> events, revents |-> revents]

NoPoll == Polled({}, {})

\* The loops of nanocom.c are not running
Standing ==
    /\ nc = Globals("device", 0, FALSE, FALSE, FALSE, FALSE, FALSE, 0, FALSE)
    /\ qcmdin = EmptyQueue
    /\ p = NoPoll

----------------------------------------------------------------------------
(* What the specifications record about the last operation *)

NoCtx == init_telnet(FALSE, NULL)

\* op: the operation; c, c2: its inputs; ret: the result of rx_telnet / tx_telnet;
\* r: the result of dequeue or getq; out: the bytes handed to write();
\* ctx, head, count, ngot: the state before the operation
Op(op, c, c2, ret, r, out) ==
    [op |-> op, c |-> c, c2 |-> c2, ret |-> ret, r |-> r, out |-> out,
     ctx |-> ctx, head |-> qtarget.head, count |-> qtarget.count, size |-> qtarget.size,
     ngot |-> ngot]

NoOp == [op |-> "none", c |-> 0, c2 |-> 0, ret |-> FALSE, r |-> 0, out |-> <<>>,
         ctx |-> NoCtx, head |-> 0, count |-> 0, size |-> 0, ngot |-> 0]

\* The bytes the last operation appended to qtarget
Enqueued ==
    SubSeq(Contents(qtarget), last.count + 1, qtarget.count)

NoTT == [m |-> 0, x |-> -1, enq |-> <<>>, dlv |-> FALSE]

\* IAC SB TTYPE <cmd> IAC SE; the fourth byte is the sub-option command, any byte
TTPattern == <<IAC, SB, TTYPE, 1, IAC, SE>>

\* tt after rx_telnet(c) returned ret and appended enq, pre the context before the call
tt_next(t, pre, c, ret, enq) ==
    IF t.m \in 1 .. 5 /\ (t.m + 1 = 4 \/ c = TTPattern[t.m + 1])
    THEN [m |-> t.m + 1, x |-> IF t.m + 1 = 4 THEN c ELSE t.x,
          enq |-> t.enq \o enq, dlv |-> t.dlv \/ ret]
    ELSE IF pre.state = 0 /\ pre.initialized /\ pre.termtype # NULL /\ c = IAC
    THEN [m |-> 1, x |-> -1, enq |-> enq, dlv |-> ret]
    ELSE NoTT

\* What write() returns for n bytes in Spec: an error, nothing, or all of them
WriteResults(n) == {-1, 0, n}

\* The state after init_telnet(&qtarget, binary, termtype) on an empty queue
Fresh(binary, termtype) ==
    /\ qtarget = EmptyQueue
    /\ ctx = init_telnet(binary, termtype)
    /\ last = NoOp
    /\ nput = 0
    /\ ngot = 0
    /\ tt = NoTT

\* No byte sequence is being played
Idle ==
    /\ script = <<>>
    /\ wire = <<>>
    /\ pos = 0
    /\ sts = <<>>
    /\ rets = <<>>

----------------------------------------------------------------------------
(* SpecQueue: one queue under putq, getq, delq, dequeue and enqueue *)

PutLens == {300, 700}
DropLens == {-1, 0, 600}
QWriteResults(n) == {-1, 0, n} \cup (IF n > 600 THEN {600} ELSE {})
EnqueueReads == {-1, 0, 256}

\* The k-th byte put since the queue was last empty
ByteOf(k) == k % 251

QInit ==
    /\ Standing
    /\ Fresh(FALSE, NULL)
    /\ Idle
    /\ pc = "queue"

\* putq(&q, data, n)
QPut(n) ==
    /\ nput + n <= MaxBytes
    /\ qtarget' = putq(qtarget, [i \in 1 .. n |-> ByteOf(nput + i - 1)])
    /\ nput' = nput + n
    /\ last' = Op("putq", n, 0, FALSE, 0, <<>>)
    /\ UNCHANGED <<ctx, ngot, tt, script, wire, pos, sts, rets, pc, loopvars>>

\* The byte counts after a removal that leaves queue q
Removed(q, n) ==
    IF q.count = 0 THEN [nput |-> 0, ngot |-> 0]
    ELSE [nput |-> nput, ngot |-> ngot + (IF n > 0 THEN n ELSE 0)]

\* n = getq(&q, &p)
QGet ==
    /\ last' = Op("getq", 0, 0, FALSE, getq(qtarget), Chunk(qtarget))
    /\ UNCHANGED <<qtarget, ctx, nput, ngot, tt, script, wire, pos, sts, rets, pc, loopvars>>

\* delq(&q, n)
QDrop(n) ==
    /\ qtarget' = delq(qtarget, n)
    /\ nput' = Removed(qtarget', n).nput
    /\ ngot' = Removed(qtarget', n).ngot
    /\ last' = Op("delq", n, 0, FALSE, 0, <<>>)
    /\ UNCHANGED <<ctx, tt, script, wire, pos, sts, rets, pc, loopvars>>

\* dequeue(&q, fd), write returning r
QDequeue(r) ==
    /\ qtarget' = dequeue(qtarget, r)
    /\ nput' = Removed(qtarget', r).nput
    /\ ngot' = Removed(qtarget', r).ngot
    /\ last' = Op("dequeue", 0, 0, FALSE, IF getq(qtarget) = 0 THEN 0 ELSE r,
                  Chunk(qtarget))
    /\ UNCHANGED <<ctx, tt, script, wire, pos, sts, rets, pc, loopvars>>

\* r = enqueue(&q, fd), read returning r: that many bytes, r <= 0 for end of
\* file or an error
QEnqueue(r) ==
    /\ r <= BufferSize
    /\ nput + r <= MaxBytes
    /\ qtarget' = enqueue(qtarget, r, [i \in 1 .. BufferSize |-> ByteOf(nput + i - 1)])
    /\ nput' = nput + (IF r > 0 THEN r ELSE 0)
    /\ last' = Op("enqueue", r, 0, FALSE, r, <<>>)
    /\ UNCHANGED <<ctx, ngot, tt, script, wire, pos, sts, rets, pc, loopvars>>

QNext ==
    \/ \E n \in PutLens : QPut(n)
    \/ QGet
    \/ \E n \in DropLens : QDrop(n)
    \/ \E r \in QWriteResults(getq(qtarget)) : QDequeue(r)
    \/ \E r \in EnqueueReads : QEnqueue(r)

SpecQueue == QInit /\ [][QNext]_vars

----------------------------------------------------------------------------
(* SpecGrow: the same queue with puts that take count + n to the size exactly
   and puts that need more than one doubling *)

GrowLens == {0, 1000, 1024, 2100}
GrowDrops == {-1, 24, 1000}

GNext ==
    \/ \E n \in GrowLens : QPut(n)
    \/ \E n \in GrowDrops : QDrop(n)
    \/ \E r \in {0, getq(qtarget)} : QDequeue(r)

SpecGrow == QInit /\ [][GNext]_vars

----------------------------------------------------------------------------
(* Spec: the telnet processor between the target and the console *)

\* Bytes the target sends: the telnet commands and options, CR, NUL and a letter
RxBytes == {NUL, SECHO, SGA, CR, TTYPE, NAWS, 65, SE, SB, WILL, WONT, DO, DONT, IAC}

\* Bytes the console or a command sends
TxBytes == {NUL, CR, 65, IAC}

\* "vt100"
VT100 == <<118, 116, 49, 48, 48, 0>>

\* Window sizes (columns, rows) the console reports
Sizes == {<<80, 24>>, <<70000, 0>>}

\* "x\377": a terminal type with a byte 0xFF in it
XFF == <<120, 255, 0>>

TermTypes == {NULL, VT100, XFF}

Init ==
    /\ Standing
    /\ \E binary \in BOOLEAN, termtype \in TermTypes : Fresh(binary, termtype)
    /\ Idle
    /\ pc = "telnet"

\* One byte read from the target: if (rx_telnet(tctx, bf[i])) display(bf[i]);
Rx(c) ==
    /\ qtarget.count <= MaxPending
    /\ LET r == rx_telnet(ctx, qtarget, c)
       IN  /\ ctx' = r.ctx
           /\ qtarget' = r.q
           /\ last' = Op("rx", c, 0, r.ret, 0, <<>>)
           /\ tt' = tt_next(tt, ctx, c, r.ret,
                            SubSeq(Contents(r.q), qtarget.count + 1, r.q.count))
    /\ UNCHANGED <<nput, ngot, script, wire, pos, sts, rets, pc, loopvars>>

\* One byte for the target: if (tx_telnet(tctx, c)) putq(&qtarget, &c, 1);
Tx(c) ==
    /\ qtarget.count <= MaxPending
    /\ qtarget' = send(ctx, qtarget, c)
    /\ ctx' = tx_context(ctx, c)
    /\ last' = Op("tx", c, 0, tx_telnet(ctx, qtarget, c).ret, 0, <<>>)
    /\ tt' = NoTT
    /\ UNCHANGED <<nput, ngot, script, wire, pos, sts, rets, pc, loopvars>>

\* resize_telnet(tctx, cols, rows)
Resize(cols, rows) ==
    /\ qtarget.count <= MaxPending
    /\ LET r == resize_telnet(ctx, qtarget, cols, rows)
       IN  /\ ctx' = r.ctx
           /\ qtarget' = r.q
    /\ last' = Op("resize", cols, rows, FALSE, 0, <<>>)
    /\ tt' = NoTT
    /\ UNCHANGED <<nput, ngot, script, wire, pos, sts, rets, pc, loopvars>>

\* dequeue(&qtarget, target), write returning r
Dequeue(r) ==
    /\ qtarget.count > 0
    /\ qtarget' = dequeue(qtarget, r)
    /\ last' = Op("dequeue", 0, 0, FALSE, r, Chunk(qtarget))
    /\ UNCHANGED <<ctx, nput, ngot, tt, script, wire, pos, sts, rets, pc, loopvars>>

Next ==
    \/ \E c \in RxBytes : Rx(c)
    \/ \E c \in TxBytes : Tx(c)
    \/ \E sz \in Sizes : Resize(sz[1], sz[2])
    \/ \E r \in WriteResults(getq(qtarget)) : Dequeue(r)

Spec == Init /\ [][Next]_vars

----------------------------------------------------------------------------
(* SpecNaws: the telnet processor under many window sizes *)

NawsRxBytes == {65, NAWS, DO, IAC}

Cols == {-1, 7, 8, 255, 65280, 65535, 70000}
Rows == {0, 1, 2, 255, 65536}

NawsNext ==
    \/ \E c \in NawsRxBytes : Rx(c)
    \/ \E cols \in Cols, rows \in Rows : Resize(cols, rows)
    \/ \E r \in WriteResults(getq(qtarget)) : Dequeue(r)

SpecNaws == Init /\ [][NawsNext]_vars

----------------------------------------------------------------------------
(* SpecRT: a byte sequence through tx_telnet, the queue and rx_telnet *)

\* Console bytes to encode
RTBytes == {NUL, CR, 65, 66, IAC}

\* Bytes of a stream received from the target as it is
RawBytes == {NUL, CR, 65, SGA, WILL, IAC}

\* The sequences over S of length at most n
Seqs(S, n) == UNION {[1 .. k -> S] : k \in 0 .. n}

\* What write() returns for n bytes in SpecRT: nothing, one byte or all of them
RTWriteResults(n) == {0, 1, n}

\* Either a console sequence to encode and decode, or a received stream to decode
RTInit ==
    /\ Standing
    /\ \E binary \in BOOLEAN : Fresh(binary, VT100)
    /\ pos = 1
    /\ sts = <<>>
    /\ rets = <<>>
    /\ \/ /\ script \in Seqs(RTBytes, MaxLen)
          /\ wire = <<>>
          /\ pc = "encode"
       \/ /\ script = <<>>
          /\ wire \in Seqs(RawBytes, MaxLen)
          /\ pc = "decode"

\* The next console byte: if (tx_telnet(tctx, c)) putq(&qtarget, &c, 1);
RTEncode ==
    /\ pc = "encode"
    /\ pos <= Len(script)
    /\ qtarget' = send(ctx, qtarget, script[pos])
    /\ last' = Op("tx", script[pos], 0, tx_telnet(ctx, qtarget, script[pos]).ret, 0, <<>>)
    /\ pos' = pos + 1
    /\ UNCHANGED <<ctx, nput, ngot, tt, script, wire, sts, rets, pc, loopvars>>

\* dequeue(&qtarget, target) once all is encoded: the target receives what write() took
RTWrite(r) ==
    /\ pc = "encode"
    /\ pos > Len(script)
    /\ qtarget.count > 0
    /\ qtarget' = dequeue(qtarget, r)
    /\ wire' = wire \o SubSeq(Chunk(qtarget), 1, r)
    /\ last' = Op("dequeue", 0, 0, FALSE, r, Chunk(qtarget))
    /\ UNCHANGED <<ctx, nput, ngot, tt, script, pos, sts, rets, pc, loopvars>>

\* The queue is empty: the stream comes back from the target
RTTurn ==
    /\ pc = "encode"
    /\ pos > Len(script)
    /\ qtarget.count = 0
    /\ pc' = "decode"
    /\ pos' = 1
    /\ UNCHANGED <<qtarget, ctx, last, nput, ngot, tt, script, wire, sts, rets, loopvars>>

\* The next received byte: if (rx_telnet(tctx, bf[i])) display(bf[i]);
RTDecode ==
    /\ pc = "decode"
    /\ pos <= Len(wire)
    /\ LET r == rx_telnet(ctx, qtarget, wire[pos])
       IN  /\ ctx' = r.ctx
           /\ qtarget' = r.q
           /\ last' = Op("rx", wire[pos], 0, r.ret, 0, <<>>)
           /\ sts' = Append(sts, ctx.state)
           /\ rets' = Append(rets, r.ret)
    /\ pos' = pos + 1
    /\ UNCHANGED <<nput, ngot, tt, script, wire, pc, loopvars>>

RTDone ==
    /\ pc = "decode"
    /\ pos > Len(wire)
    /\ pc' = "done"
    /\ UNCHANGED <<qtarget, ctx, last, nput, ngot, tt, script, wire, pos, sts, rets, loopvars>>

RTNext ==
    \/ RTEncode
    \/ \E r \in RTWriteResults(getq(qtarget)) : RTWrite(r)
    \/ RTTurn
    \/ RTDecode
    \/ RTDone

SpecRT == RTInit /\ [][RTNext]_vars

\* The bytes of w that the caller was told to handle, m[i] the result for w[i]
RECURSIVE Kept(_, _)
Kept(w, m) ==
    IF w = <<>> \/ m = <<>> THEN <<>>
    ELSE (IF Head(m) THEN <<Head(w)>> ELSE <<>>) \o Kept(Tail(w), Tail(m))

\* The bytes displayed so far
Delivered == Kept(wire, rets)

----------------------------------------------------------------------------
(* nanocom.c: doconnect, the main loop and the loop of run() *)

\* What a loop step records: bf, the bytes read (or the key); rets, the value of
\* the telnet condition for each of them; r, what read, write or poll returned;
\* out, the bytes handed on (displayed, written to cmderr or to the target);
\* and the state before the step
Did(op, bf, kept, r, out) ==
    [op |-> op, bf |-> bf, rets |-> kept, r |-> r, out |-> out,
     ctx |-> ctx, count |-> qtarget.count, nin |-> qcmdin.count, g |-> nc, pc |-> pc]

\* "dumb" and "xterm"
DUMB == <<100, 117, 109, 98, 0>>
XTERM == <<120, 116, 101, 114, 109, 0>>

\* What the environment may hold as TERM: nothing, xterm, vt100
Environment == {NULL, XTERM, VT100}

\* getenv("TERM") ?: "dumb", env being what getenv returns (NULL: not set)
TERM(env) == IF env = NULL THEN DUMB ELSE env

\* How one pass of doconnect's while loop can end. A device: opened, not opened,
\* or opened and found unusable (die). A socket: connected, not resolved or no
\* socket (die), or connect() failing with an errno.
Outcomes(kind) ==
    IF kind = "device" THEN {"ok", "failed", "die"}
    ELSE {"ok", "die", "ECONNREFUSED", "ETIMEDOUT", "ENETUNREACH", "EHOSTUNREACH"}

\* What open() or connect() returned in a pass that ended as o says
Tried(o) ==
    [n |-> IF o = "ok" THEN 0 ELSE -1, errno |-> IF o = "ok" THEN "" ELSE o, bf |-> <<>>]

\* The errno test without ENETUNREACH
retryable_but_unreachable(errno) ==
    errno \in {"ECONNREFUSED", "ETIMEDOUT"}

\* if (errno != ECONNREFUSED && errno != ETIMEDOUT && errno != ENETUNREACH) reconnect = 0;
retryable(errno) ==
    errno \in {"ECONNREFUSED", "ETIMEDOUT", "ENETUNREACH"}

\* The process ends with this status
Exit(status) ==
    /\ nc' = [nc EXCEPT !.status = status, !.open = FALSE]
    /\ pc' = "exit"

\* doconnect up to its while loop: report and close a target that was open
Doconnect ==
    /\ pc = "doconnect"
    /\ IF nc.target # 0 /\ ~nc.reconnect
       THEN Exit(1)
       ELSE /\ nc' = [nc EXCEPT !.open = FALSE, !.again = (nc.target # 0)]
            /\ pc' = "connect"
    /\ last' = Did("doconnect", <<>>, <<>>, 0, <<>>)
    /\ UNCHANGED <<qtarget, ctx, nput, ngot, tt, script, wire, pos, sts, rets, qcmdin, p>>

\* doconnect leaving qtarget as it is on a reconnect
wiped_kept(q) ==
    q

\* doconnect after a successful connect: delq(&qtarget, -1);
wiped(q) ==
    delq(q, -1)

\* One pass of doconnect's while loop, ending as o says; after a success the
\* rest of doconnect: the flush reads (their bytes are dropped), delq(&qtarget,
\* -1), and with telnet a new context and sigwinch
Attempt(o) ==
    /\ pc = "connect"
    /\ o \in Outcomes(nc.kind)
    /\ last' = Did("attempt", <<>>, <<>>, Tried(o), <<>>)
    /\ CASE o = "die" ->
              /\ Exit(1)
              /\ UNCHANGED <<qtarget, ctx>>
         [] o = "ok" ->
              /\ nc' = [nc EXCEPT !.target = 3, !.open = TRUE,
                                  !.sigwinch = @ \/ nc.telnet # 0]
              /\ qtarget' = wiped(qtarget)
              /\ ctx' = IF nc.telnet # 0 THEN init_telnet(nc.telnet = 1, TERM(nc.term)) ELSE ctx
              /\ pc' = "connected"
         [] OTHER ->
              LET again == nc.reconnect /\ (nc.kind = "device" \/ retryable(o))
              IN  /\ IF again
                     THEN /\ nc' = [nc EXCEPT !.target = -1, !.reconnect = again]
                          /\ pc' = "connect"
                     ELSE /\ nc' = [nc EXCEPT !.target = -1, !.reconnect = again,
                                              !.status = 1]
                          /\ pc' = "exit"
                  /\ UNCHANGED <<qtarget, ctx>>
    /\ UNCHANGED <<nput, ngot, tt, script, wire, pos, sts, rets, qcmdin, p>>

\* main leaving start set after run(start) whatever restart is
start_kept(start, caller, restart) ==
    start

\* main after run(start) has returned: if (!restart) start = NULL; a run() from
\* the menu leaves start alone
start_after(start, caller, restart) ==
    start /\ (caller # "main" \/ restart)

\* How run(cmd) goes up to its loop. "started": the child runs. "blank":
\* nothing is left of the command once the white space and a leading - are
\* taken off, if (*cmd) fails and run returns. "failed": pipe2 or forkpty
\* fails, die.
Launches == {"started", "blank", "failed"}

\* run(cmd) up to its loop, called from where with the globals g and going as
\* how says (not "blank", which the callers take): the command is running,
\* qcmdin = {0}; or running is set and the program ends with status 1
Run(g, where, how) ==
    IF how = "failed"
    THEN /\ nc' = [g EXCEPT !.running = TRUE, !.status = 1, !.open = FALSE]
         /\ pc' = "exit"
         /\ UNCHANGED qcmdin
    ELSE /\ nc' = [g EXCEPT !.running = TRUE, !.aborted = FALSE, !.caller = where,
                            !.frame = p]
         /\ qcmdin' = EmptyQueue
         /\ pc' = "bridge"

\* What open() of the tee file leaves in teefd: a descriptor, 0 (the file
\* opened as descriptor 0), or -1 (neither open() gave a descriptor)
TeeOpens == {4, 0, -1}

\* main between doconnect and its inner loop. if (teename && !teefd) the tee
\* file is opened, fd being what teefd holds after the open()s: die if it is 0
\* or negative. Then if (start) { run(start); if (!restart) start = NULL; }
\* with run going as how says.
Connected(how, fd) ==
    /\ pc = "connected"
    /\ how \in Launches
    /\ LET opens == nc.teename /\ nc.teefd = 0
           g == [nc EXCEPT !.teefd = fd]
       IN  /\ IF opens THEN fd \in TeeOpens ELSE fd = nc.teefd
           /\ IF opens /\ fd <= 0
              THEN /\ how = "started"
                   /\ nc' = [g EXCEPT !.status = 1, !.open = FALSE]
                   /\ pc' = "exit"
                   /\ UNCHANGED qcmdin
              ELSE IF ~nc.start
              THEN /\ how = "started"
                   /\ nc' = g
                   /\ pc' = "main"
                   /\ UNCHANGED qcmdin
              ELSE IF how = "blank"
              THEN /\ nc' = [g EXCEPT !.start = start_after(nc.start, "main", nc.restart)]
                   /\ pc' = "main"
                   /\ UNCHANGED qcmdin
              ELSE Run(g, "main", how)
    /\ last' = Did("connected", <<fd>>, <<>>, how, <<>>)
    /\ UNCHANGED <<qtarget, ctx, nput, ngot, tt, script, wire, pos, sts, rets, p>>

\* SIGWINCH arrives: set_sigwinch, installed only with telnet
Winch ==
    /\ pc \notin {"exit", "queue", "telnet", "encode", "decode", "done"}
    /\ nc.telnet # 0
    /\ ~nc.sigwinch
    /\ nc' = [nc EXCEPT !.sigwinch = TRUE]
    /\ UNCHANGED <<qtarget, ctx, last, nput, ngot, tt, script, wire, pos, sts, rets, pc,
                   qcmdin, p>>

\* read() returned the bytes bf
Read(bf) == [n |-> Len(bf), errno |-> "", bf |-> bf]

\* read() or write() returned n <= 0, errno saying why
Failed(n, errno) == [n |-> n, errno |-> errno, bf |-> <<>>]

\* write() took n bytes
Wrote(n) == [n |-> n, errno |-> "", bf |-> <<>>]

\* What read() on a descriptor that poll reported can return besides bytes
Failures == {Failed(0, ""), Failed(-1, "EAGAIN"), Failed(-1, "EINTR"), Failed(-1, "EIO")}

\* The handlers of the two loops, in the order of the pollfd entries they test
MainHandlers == <<"m_console", "m_target", "m_write">>
BridgeHandlers == <<"b_cmderr", "b_console", "b_target", "b_cmdout", "b_cmdin", "b_write">>

\* The next handler after entry i whose revents is set, else the top of the loop
Following(handlers, top, revents, i) ==
    IF \E j \in revents : j > i
    THEN handlers[1 + CHOOSE j \in revents : j > i /\ \A h \in revents : h > i => j <= h]
    ELSE top

\* p[] with the target registered for writing whatever qtarget holds
main_events_always(nout) ==
    {0, 1, 2}

\* The entries of main's p[] whose fd is not -1, nout being availq(&qtarget):
\* the console and the target for reading always, the target for writing only
\* if something is queued
main_events(nout) ==
    {0, 1} \cup (IF nout # 0 THEN {2} ELSE {})

\* The top of main's inner loop: resize_telnet if sigwinch is set (ws is what
\* TIOCGWINSZ gave, <<>> if the ioctl failed), then p[] and poll, which reports
\* the entries in fired
MainPoll(ws, fired) ==
    /\ pc = "main"
    /\ LET resize == nc.telnet # 0 /\ nc.sigwinch /\ ws # <<>>
           cols == ws[1] - (CASE nc.timestamp = 1 -> 15 [] nc.timestamp = 2 -> 26 [] OTHER -> 0)
           r == IF resize THEN resize_telnet(ctx, qtarget, cols, ws[2])
                ELSE [ctx |-> ctx, q |-> qtarget]
           events == main_events(availq(r.q))
       IN  /\ fired \subseteq events
           /\ ctx' = r.ctx
           /\ qtarget' = r.q
           /\ nc' = [nc EXCEPT !.sigwinch = @ /\ nc.telnet = 0]
           /\ p' = Polled(events, fired)
           /\ pc' = Following(MainHandlers, "main", fired, -1)
    /\ last' = Did("poll", ws, <<>>, 0, <<>>)
    /\ UNCHANGED <<nput, ngot, tt, script, wire, pos, sts, rets, qcmdin>>

\* main, if (p[0].revents): the key c from the console (-1: key() dies on a
\* console error); for the command key, k is the menu key, or how the wait
\* for it ended, and how tells how run(NULL) goes
MainConsole(c, k, how) ==
    /\ pc = "m_console"
    /\ how \in Launches
    /\ (c = COMMAND /\ k \in Interrupted) => nc.telnet # 0
    /\ last' = Did("console", IF c = COMMAND THEN <<c, k>> ELSE <<c>>, <<>>, 0, <<>>)
    /\ LET m == command(nc, k)
           on == Following(MainHandlers, "main", p.revents, 0)
       IN  CASE c = -1 ->
                  /\ Exit(1)
                  /\ UNCHANGED <<qtarget, qcmdin>>
             [] c = COMMAND /\ m.then = "die" ->
                  /\ nc' = [m.g EXCEPT !.status = 1, !.open = FALSE]
                  /\ pc' = "exit"
                  /\ UNCHANGED <<qtarget, qcmdin>>
             [] c = COMMAND /\ m.then = "exit" ->
                  /\ Exit(0)
                  /\ UNCHANGED <<qtarget, qcmdin>>
             [] c = COMMAND /\ m.then = "run" /\ how # "blank" ->
                  /\ Run(nc, "command", how)
                  /\ UNCHANGED qtarget
             [] c = COMMAND /\ m.then = "run" /\ how = "blank" ->
                  /\ pc' = on
                  /\ UNCHANGED <<nc, qtarget, qcmdin>>
             [] c = COMMAND /\ m.then = "return" ->
                  /\ nc' = m.g
                  /\ qtarget' = IF m.ret = 1 THEN putq(qtarget, <<COMMAND>>) ELSE qtarget
                  /\ pc' = on
                  /\ UNCHANGED qcmdin
             [] OTHER ->
                  /\ qtarget' = console_key(nc, ctx, qtarget, c)
                  /\ pc' = on
                  /\ UNCHANGED <<nc, qcmdin>>
    /\ UNCHANGED <<ctx, nput, ngot, tt, script, wire, pos, sts, rets, p>>

\* The bytes lo .. hi of w whose mark in m is set
RECURSIVE PassedIn(_, _, _, _)
PassedIn(w, m, lo, hi) ==
    IF lo > hi THEN <<>>
    ELSE IF lo = hi THEN (IF m[lo] THEN <<w[lo]>> ELSE <<>>)
    ELSE PassedIn(w, m, lo, (lo + hi) \div 2) \o PassedIn(w, m, (lo + hi) \div 2 + 1, hi)

\* The bytes of w for which the telnet condition held
Passed(w, m) == PassedIn(w, m, 1, Len(w))

\* main taking only an error, not end of file, as a dropped connection
dropped_on_error(n) ==
    n < 0

\* main, if (n <= 0) break; the connection is assumed dropped
dropped(n) ==
    n <= 0

\* main, if (p[1].revents): read from the target; n <= 0 leaves the inner loop
\* for doconnect, else each byte goes through rx_telnet and on to display
MainTarget(rd) ==
    /\ pc = "m_target"
    /\ IF dropped(rd.n)
       THEN /\ pc' = "doconnect"
            /\ last' = Did("target", <<>>, <<>>, rd, <<>>)
            /\ UNCHANGED <<ctx, qtarget>>
       ELSE LET r == receive_each(nc.telnet, ctx, qtarget, rd.bf, 1, rd.n)
            IN  /\ ctx' = r.ctx
                /\ qtarget' = r.q
                /\ last' = Did("target", rd.bf, r.rets, rd, Passed(rd.bf, r.rets))
                /\ pc' = Following(MainHandlers, "main", p.revents, 1)
    /\ UNCHANGED <<nput, ngot, tt, script, wire, pos, sts, rets, nc, qcmdin, p>>

\* main, if (p[2].revents && dequeue(&qtarget, target) <= 0) break; wr is what
\* write() returns when dequeue calls it
MainWrite(wr) ==
    /\ pc = "m_write"
    /\ LET n == getq(qtarget)
           r == IF n = 0 THEN Wrote(0) ELSE wr
       IN  /\ r.n <= n
           /\ qtarget' = dequeue(qtarget, r.n)
           /\ last' = Did("write", <<>>, <<>>, r,
                          IF r.n > 0 THEN SubSeq(Chunk(qtarget), 1, r.n) ELSE <<>>)
           /\ pc' = IF r.n <= 0 THEN "doconnect" ELSE "main"
    /\ UNCHANGED <<ctx, nput, ngot, tt, script, wire, pos, sts, rets, nc, qcmdin, p>>

\* p[] with the child's stdout registered however full qtarget is
bridge_events_unguarded(nin, nout) ==
    {0, 1, 3} \cup (IF nin < HighWater THEN {2} ELSE {})
              \cup (IF nin # 0 THEN {4} ELSE {})
              \cup (IF nout # 0 THEN {5} ELSE {})

\* The entries of run()'s p[] whose fd is not -1, nin and nout being
\* availq(&qcmdin) and availq(&qtarget): cmderr and the console always, the
\* target and cmdout for reading only if space, cmdin and the target for
\* writing only if something is queued
bridge_events(nin, nout) ==
    {0, 1} \cup (IF nin < HighWater THEN {2} ELSE {})
           \cup (IF nout < HighWater THEN {3} ELSE {})
           \cup (IF nin # 0 THEN {4} ELSE {})
           \cup (IF nout # 0 THEN {5} ELSE {})

\* What poll(p, 6, -1) returned: the number of entries reported, or -1 when a
\* signal interrupted it before any was ready
Waited(fired) ==
    IF fired = {} THEN Failed(-1, "EINTR")
    ELSE [n |-> Cardinality(fired), errno |-> "", bf |-> <<>>]

\* The top of main's inner loop up to the call of poll, for the signal that
\* arrives in between: the sigwinch test with resize_telnet, then p[]
MainTop(ws) ==
    /\ pc = "main"
    /\ LET resize == nc.telnet # 0 /\ nc.sigwinch /\ ws # <<>>
           cols == ws[1] - (CASE nc.timestamp = 1 -> 15 [] nc.timestamp = 2 -> 26 [] OTHER -> 0)
           r == IF resize THEN resize_telnet(ctx, qtarget, cols, ws[2])
                ELSE [ctx |-> ctx, q |-> qtarget]
       IN  /\ ctx' = r.ctx
           /\ qtarget' = r.q
           /\ nc' = [nc EXCEPT !.sigwinch = @ /\ nc.telnet = 0]
           /\ p' = Polled(main_events(availq(r.q)), {})
           /\ pc' = "m_poll"
    /\ last' = Did("top", ws, <<>>, 0, <<>>)
    /\ UNCHANGED <<nput, ngot, tt, script, wire, pos, sts, rets, qcmdin>>

\* poll(p, 3, -1) is entered: with no timeout, the process sleeps in it
PollEnter ==
    /\ pc = "m_poll"
    /\ pc' = "m_polling"
    /\ last' = Did("enter", <<>>, <<>>, 0, <<>>)
    /\ UNCHANGED <<qtarget, ctx, nput, ngot, tt, script, wire, pos, sts, rets, nc, qcmdin, p>>

\* poll returns because the entries in fired are ready
PollReturn(fired) ==
    /\ pc = "m_polling"
    /\ fired # {}
    /\ fired \subseteq p.events
    /\ p' = Polled(p.events, fired)
    /\ pc' = Following(MainHandlers, "main", fired, -1)
    /\ last' = Did("poll", <<>>, <<>>, Waited(fired), <<>>)
    /\ UNCHANGED <<qtarget, ctx, nput, ngot, tt, script, wire, pos, sts, rets, nc, qcmdin>>

\* SIGWINCH arrives while main sleeps in poll: set_sigwinch runs and poll
\* returns -1 (EINTR) with no revents set, so main is back at the top
WinchInPoll ==
    /\ pc = "m_polling"
    /\ nc.telnet # 0
    /\ nc' = [nc EXCEPT !.sigwinch = TRUE]
    /\ pc' = Following(MainHandlers, "main", {}, -1)
    /\ last' = Did("poll", <<>>, <<>>, Waited({}), <<>>)
    /\ UNCHANGED <<qtarget, ctx, nput, ngot, tt, script, wire, pos, sts, rets, qcmdin, p>>

\* The top of run()'s loop: p[] and poll, which reports the entries in fired;
\* none means r <= 0 (poll failed or was interrupted), which leaves the loop
BridgePoll(fired) ==
    /\ pc = "bridge"
    /\ fired \subseteq bridge_events(availq(qcmdin), availq(qtarget))
    /\ p' = Polled(bridge_events(availq(qcmdin), availq(qtarget)), fired)
    /\ pc' = Following(BridgeHandlers, "b_exit", fired, -1)
    /\ last' = Did("poll", <<>>, <<>>, Waited(fired), <<>>)
    /\ UNCHANGED <<qtarget, ctx, nput, ngot, tt, script, wire, pos, sts, rets, nc, qcmdin>>

\* run(), if (p[0].revents && cmderr2console() <= 0) break;
BridgeCmderr(rd) ==
    /\ pc = "b_cmderr"
    /\ last' = Did("cmderr", rd.bf, <<>>, rd, rd.bf)
    /\ pc' = IF rd.n <= 0 THEN "b_exit" ELSE Following(BridgeHandlers, "bridge", p.revents, 0)
    /\ UNCHANGED <<qtarget, ctx, nput, ngot, tt, script, wire, pos, sts, rets, nc, qcmdin, p>>

\* run(), if (p[1].revents): the key c from the console (-1: key() dies); for
\* the command key, k is the menu key, or how the wait for it ended; w is
\* what put(cmderr, ...) returns if it is called
BridgeConsole(c, k, w) ==
    /\ pc = "b_console"
    /\ (c = COMMAND /\ k \in Interrupted) => nc.telnet # 0
    /\ LET m == command(nc, k)
           sent == IF c = COMMAND /\ m.ret = 0 THEN 0 ELSE c
           on == Following(BridgeHandlers, "bridge", p.revents, 1)
           keys == IF c = COMMAND THEN <<c, k>> ELSE <<c>>
       IN  CASE c = -1 ->
                  /\ Exit(1)
                  /\ last' = Did("console", keys, <<>>, 0, <<>>)
             [] c = COMMAND /\ m.then = "die" ->
                  /\ nc' = [m.g EXCEPT !.status = 1, !.open = FALSE]
                  /\ pc' = "exit"
                  /\ last' = Did("console", keys, <<>>, 0, <<>>)
             [] c = COMMAND /\ m.then = "exit" ->
                  /\ Exit(0)
                  /\ last' = Did("console", keys, <<>>, 0, <<>>)
             [] c = COMMAND /\ m.ret < 0 ->
                  /\ nc' = [m.g EXCEPT !.aborted = TRUE]
                  /\ pc' = "b_exit"
                  /\ last' = Did("console", keys, <<>>, 0, <<>>)
             [] OTHER ->
                  /\ nc' = IF c = COMMAND THEN m.g ELSE nc
                  /\ pc' = IF sent # 0 /\ w # 0 THEN "b_exit" ELSE on
                  /\ last' = Did("console", keys, <<>>, IF sent # 0 THEN w ELSE 0,
                                 IF sent # 0 /\ w = 0 THEN <<sent>> ELSE <<>>)
    /\ UNCHANGED <<qtarget, ctx, nput, ngot, tt, script, wire, pos, sts, rets, qcmdin, p>>

\* run(), if (p[2].revents): read from the target; n <= 0 leaves the loop, else
\* each byte goes through rx_telnet and on to qcmdin
BridgeTarget(rd) ==
    /\ pc = "b_target"
    /\ IF rd.n <= 0
       THEN /\ pc' = "b_exit"
            /\ last' = Did("target", <<>>, <<>>, rd, <<>>)
            /\ UNCHANGED <<ctx, qtarget, qcmdin>>
       ELSE LET r == receive_each(nc.telnet, ctx, qtarget, rd.bf, 1, rd.n)
            IN  /\ ctx' = r.ctx
                /\ qtarget' = r.q
                /\ qcmdin' = putq_each(qcmdin, Passed(rd.bf, r.rets))
                /\ last' = Did("target", rd.bf, r.rets, rd, Passed(rd.bf, r.rets))
                /\ pc' = Following(BridgeHandlers, "bridge", p.revents, 2)
    /\ UNCHANGED <<nput, ngot, tt, script, wire, pos, sts, rets, nc, p>>

\* run(), if (p[3].revents && cmdout2qtarget() <= 0) break;
BridgeCmdout(rd) ==
    /\ pc = "b_cmdout"
    /\ qtarget' = forward_each(nc.telnet, ctx, qtarget, rd.bf)
    /\ last' = Did("cmdout", rd.bf, <<>>, rd, <<>>)
    /\ pc' = IF rd.n <= 0 THEN "b_exit" ELSE Following(BridgeHandlers, "bridge", p.revents, 3)
    /\ UNCHANGED <<ctx, nput, ngot, tt, script, wire, pos, sts, rets, nc, qcmdin, p>>

\* run(), if (p[4].revents): dequeue(&qcmdin, wend(cmdin)); n <= 0 leaves the loop
BridgeCmdin(wr) ==
    /\ pc = "b_cmdin"
    /\ LET n == getq(qcmdin)
           r == IF n = 0 THEN Wrote(0) ELSE wr
       IN  /\ r.n <= n
           /\ qcmdin' = dequeue(qcmdin, r.n)
           /\ last' = Did("cmdin", <<>>, <<>>, r,
                          IF r.n > 0 THEN SubSeq(Chunk(qcmdin), 1, r.n) ELSE <<>>)
           /\ pc' = IF r.n <= 0 THEN "b_exit"
                    ELSE Following(BridgeHandlers, "bridge", p.revents, 4)
    /\ UNCHANGED <<qtarget, ctx, nput, ngot, tt, script, wire, pos, sts, rets, nc, p>>

\* run(), if (p[5].revents && dequeue(&qtarget, target) <= 0) break;
BridgeWrite(wr) ==
    /\ pc = "b_write"
    /\ LET n == getq(qtarget)
           r == IF n = 0 THEN Wrote(0) ELSE wr
       IN  /\ r.n <= n
           /\ qtarget' = dequeue(qtarget, r.n)
           /\ last' = Did("write", <<>>, <<>>, r,
                          IF r.n > 0 THEN SubSeq(Chunk(qtarget), 1, r.n) ELSE <<>>)
           /\ pc' = IF r.n <= 0 THEN "b_exit" ELSE "bridge"
    /\ UNCHANGED <<ctx, nput, ngot, tt, script, wire, pos, sts, rets, nc, qcmdin, p>>

\* while (cmdout2qtarget() > 0); the reads returning the buffers of bufs in turn
RECURSIVE flushed(_, _, _, _)
flushed(telnet, c_, q, bufs) ==
    IF bufs = <<>> THEN q
    ELSE flushed(telnet, c_, forward_each(telnet, c_, q, Head(bufs)), Tail(bufs))

\* run() after its loop: freeq(&qcmdin), the pended cmdout flushed to qtarget
\* unless aborted (bufs: what the reads return before one returns <= 0), the
\* child reaped, running = NULL; then back in the caller: main (if (!restart)
\* start = NULL, then the top of the inner loop) or command() called by main's
\* console handler, which goes on with the p[] it had
BridgeExit(bufs) ==
    /\ pc = "b_exit"
    /\ nc.aborted => bufs = <<>>
    /\ qcmdin' = freeq(qcmdin)
    /\ qtarget' = flushed(nc.telnet, ctx, qtarget, bufs)
    /\ nc' = [nc EXCEPT !.running = FALSE, !.aborted = FALSE, !.caller = "none",
                        !.frame = <<>>,
                        !.start = start_after(nc.start, nc.caller, nc.restart)]
    /\ p' = IF nc.caller = "main" THEN p ELSE nc.frame
    /\ pc' = IF nc.caller = "main" THEN "main"
             ELSE Following(MainHandlers, "main", nc.frame.revents, 0)
    /\ last' = Did("b_exit", bufs, <<>>, 0, <<>>)
    /\ UNCHANGED <<ctx, nput, ngot, tt, script, wire, pos, sts, rets>>

----------------------------------------------------------------------------
(* run() after its loop, one step per call: BridgeExit above takes the same
   path in a single step, given the reads of the flush *)

\* close(wend(cmdin)); freeq(&qcmdin); then the cmdout flush unless aborted
ExitClose ==
    /\ pc = "b_exit"
    /\ qcmdin' = freeq(qcmdin)
    /\ pc' = IF nc.aborted THEN "x_cmderr" ELSE "x_cmdout"
    /\ last' = Did("x_close", <<>>, <<>>, 0, <<>>)
    /\ UNCHANGED <<qtarget, ctx, nput, ngot, tt, script, wire, pos, sts, rets, nc, p>>

\* The status of a process that abort() ended: 128 + SIGABRT
Aborted == 134

\* One pass of while (cmdout2qtarget() > 0); the read returns rd: bytes while
\* the pipe holds some, -1 (EAGAIN) from an empty pipe the child still holds
\* open, 0 at end of file. When a putq of the pass needs a buffer that realloc
\* does not give, putq calls abort(). After the last pass close(rend(cmdout)).
FlushCmdout(rd) ==
    /\ pc = "x_cmdout"
    /\ LET q == forward_each(nc.telnet, ctx, qtarget, rd.bf)
       IN  IF q.size > MaxAlloc
           THEN /\ nc' = [nc EXCEPT !.status = Aborted, !.open = FALSE]
                /\ pc' = "exit"
                /\ UNCHANGED qtarget
           ELSE /\ qtarget' = q
                /\ pc' = IF rd.n > 0 THEN "x_cmdout" ELSE "x_cmderr"
                /\ UNCHANGED nc
    /\ last' = Did("x_cmdout", rd.bf, <<>>, rd.n, <<>>)
    /\ UNCHANGED <<ctx, nput, ngot, tt, script, wire, pos, sts, rets, qcmdin, p>>

\* One pass of while (cmderr2console() > 0); then close(cmderr)
FlushCmderr(rd) ==
    /\ pc = "x_cmderr"
    /\ pc' = IF rd.n > 0 THEN "x_cmderr" ELSE "x_reap"
    /\ last' = Did("x_cmderr", rd.bf, <<>>, rd.n, rd.bf)
    /\ UNCHANGED <<qtarget, ctx, nput, ngot, tt, script, wire, pos, sts, rets, nc,
                   qcmdin, p>>

\* int try[] = {SIGTERM, SIGHUP, SIGINT, SIGKILL, 0}
try == <<15, 1, 2, 9>>

\* usleep, waitpid(WNOHANG) and the signals of try[] in turn, ten waits after
\* each; sent is how many were sent before waitpid reported the child (all of
\* them if it never did, wstatus = -1). Then running = NULL and back in the
\* caller, as in BridgeExit.
Reap(sent) ==
    /\ pc = "x_reap"
    /\ nc' = [nc EXCEPT !.running = FALSE, !.aborted = FALSE, !.caller = "none",
                        !.frame = <<>>,
                        !.start = start_after(nc.start, nc.caller, nc.restart)]
    /\ p' = IF nc.caller = "main" THEN p ELSE nc.frame
    /\ pc' = IF nc.caller = "main" THEN "main"
             ELSE Following(MainHandlers, "main", nc.frame.revents, 0)
    /\ last' = Did("x_reap", <<>>, <<>>, sent, SubSeq(try, 1, sent))
    /\ UNCHANGED <<qtarget, ctx, nput, ngot, tt, script, wire, pos, sts, rets, qcmdin>>

----------------------------------------------------------------------------
(* The state main's option parser leaves, before the first doconnect *)

\* The key, display and tee options of a command line, each <<bskey, enterkey,
\* timestamp, teename>>: -b, -e, -s (1) or -S (2), and -f file
Options == BOOLEAN \X BOOLEAN \X {0, 1, 2} \X BOOLEAN

Started(kind, telnet, reconnect, start, restart, term, opt) ==
    /\ opt \in Options
    /\ nc = [Globals(kind, telnet, reconnect, start, restart, opt[1], opt[2], opt[3],
                       opt[4])
               EXCEPT !.term = term]
    /\ qtarget = EmptyQueue
    /\ qcmdin = EmptyQueue
    /\ ctx = NoCtx
    /\ p = NoPoll
    /\ last = NoOp
    /\ nput = 0
    /\ ngot = 0
    /\ tt = NoTT
    /\ Idle
    /\ pc = "doconnect"

\* What write() can return for a chunk of n bytes: all of it or a failure
Writes(n) ==
    {Wrote(n), Failed(-1, "EAGAIN"), Failed(-1, "EIO")}

\* While a queue holds more than MaxHeld bytes poll reports no descriptor to read
Readable ==
    IF availq(qtarget) <= MaxHeld /\ availq(qcmdin) <= MaxHeld THEN 0 .. 3 ELSE {}

\* The entries poll reports in one pass: none, one, or several
MainFired == {{}, {0}, {1}, {2}, {0, 1, 2}}
BridgeFired == {{}, {0}, {1}, {2}, {3}, {4}, {5}, {2, 3}, {1, 2, 3, 4, 5}}

----------------------------------------------------------------------------
(* SpecConnect: doconnect and the main loop, no FX command *)

ConnectKeys == {65, BS, LF, COMMAND}
ConnectMenu == {KeyR, KeyBackslash, KeyDied, KeyWinch, HelpDied}
LoopSizes == {<<>>, <<80, 24>>}
ConnectReads == {Read(<<65>>), Read(<<IAC, DO, NAWS>>)} \cup Failures

CInit ==
    \E kind \in {"device", "socket"}, telnet \in {0, 2}, reconnect \in BOOLEAN,
       term \in Environment, opt \in {<<FALSE, FALSE, 0, FALSE>>, <<TRUE, TRUE, 1, TRUE>>} :
        Started(kind, telnet, reconnect, FALSE, FALSE, term, opt)

CNext ==
    \/ Doconnect
    \/ \E o \in Outcomes(nc.kind) : Attempt(o)
    \/ \E fd \in TeeOpens : Connected("started", fd)
    \/ availq(qtarget) <= MaxHeld /\ Winch
    \/ \E ws \in LoopSizes, fired \in MainFired :
          fired \subseteq {2} \cup Readable /\ MainPoll(ws, fired)
    \/ \E c \in ConnectKeys, k \in ConnectMenu : MainConsole(c, k, "blank")
    \/ \E rd \in ConnectReads : MainTarget(rd)
    \/ \E wr \in Writes(getq(qtarget)) : MainWrite(wr)

SpecConnect == CInit /\ [][CNext]_vars

----------------------------------------------------------------------------
(* SpecLoop: the main loop and the loop of run(), with short reads *)

LoopKeys == {-1, 0, 65, LF, CR, IAC, COMMAND}
MenuKeys == {KeyE, KeyQ, KeyX, KeyBackslash, KeyHelp, KeyDied, KeyWinch, HelpDied,
             HelpWinch}
TargetReads == {Read(<<65>>), Read(<<IAC>>), Read(<<CR, NUL, 65>>), Failed(0, "")}
CmdoutReads == {Read(<<65>>), Read(<<IAC, CR>>), Failed(0, "")}
CmderrReads == {Read(<<65>>), Failed(0, "")}
Flushes == {<<>>, <<<<IAC>>>>}

LInit ==
    \E telnet \in {0, 1, 2}, start \in BOOLEAN, term \in Environment,
       opt \in {<<FALSE, FALSE, 0, FALSE>>, <<FALSE, TRUE, 0, FALSE>>} :
        Started("device", telnet, FALSE, start, FALSE, term, opt)

LNext ==
    \/ Doconnect
    \/ Attempt("ok")
    \/ \E how \in Launches : Connected(how, 0)
    \/ \E fired \in MainFired :
          fired \subseteq {2} \cup Readable /\ MainPoll(<<80, 24>>, fired)
    \/ \E c \in LoopKeys, k \in MenuKeys, how \in Launches : MainConsole(c, k, how)
    \/ \E rd \in TargetReads : MainTarget(rd)
    \/ \E wr \in Writes(getq(qtarget)) : MainWrite(wr)
    \/ \E fired \in BridgeFired :
          fired \subseteq {4, 5} \cup Readable /\ BridgePoll(fired)
    \/ \E rd \in CmderrReads : BridgeCmderr(rd)
    \/ \E c \in LoopKeys, k \in MenuKeys, w \in {0, -1} : BridgeConsole(c, k, w)
    \/ \E rd \in TargetReads : BridgeTarget(rd)
    \/ \E rd \in CmdoutReads : BridgeCmdout(rd)
    \/ \E wr \in Writes(getq(qcmdin)) : BridgeCmdin(wr)
    \/ \E wr \in Writes(getq(qtarget)) : BridgeWrite(wr)
    \/ \E bufs \in Flushes : BridgeExit(bufs)

SpecLoop == LInit /\ [][LNext]_vars

----------------------------------------------------------------------------
(* SpecStart: -x or -X given, with reconnects *)

StartKeys == {65, COMMAND}
StartMenu == {KeyX, KeyQ, KeyDied, KeyWinch}
StartReads == {Read(<<65>>), Failed(0, "")}
StartFired == {{}, {0}, {1}, {2}, {3}, {5}}

SInit ==
    \E telnet \in {0, 2}, reconnect \in BOOLEAN, restart \in BOOLEAN :
        Started("device", telnet, reconnect, TRUE, restart, NULL, <<TRUE, FALSE, 0, TRUE>>)

SNext ==
    \/ Doconnect
    \/ \E o \in {"ok", "failed"} : Attempt(o)
    \/ \E how \in Launches, fd \in TeeOpens : Connected(how, fd)
    \/ \E fired \in MainFired :
          fired \subseteq {2} \cup Readable /\ MainPoll(<<80, 24>>, fired)
    \/ \E c \in StartKeys, k \in StartMenu, how \in Launches : MainConsole(c, k, how)
    \/ \E rd \in StartReads : MainTarget(rd)
    \/ MainWrite(Wrote(getq(qtarget)))
    \/ \E fired \in StartFired :
          fired \subseteq {4, 5} \cup Readable /\ BridgePoll(fired)
    \/ \E rd \in StartReads : BridgeCmderr(rd)
    \/ \E c \in StartKeys, k \in StartMenu : BridgeConsole(c, k, 0)
    \/ \E rd \in StartReads : BridgeTarget(rd)
    \/ \E rd \in StartReads : BridgeCmdout(rd)
    \/ BridgeWrite(Wrote(getq(qtarget)))
    \/ BridgeExit(<<>>)

SpecStart == SInit /\ [][SNext]_vars

----------------------------------------------------------------------------
(* SpecExit: an FX command started at connect, and run() after its loop one
   call at a time; the behaviour ends when run() is back in main *)

ExitKeys == {65, COMMAND}
ExitMenu == {KeyX, KeyHelp, HelpDied, HelpWinch}
ExitReads == {Read(<<65>>), Failed(0, "")}
ExitFired == {{}, {0}, {1}, {2}, {3}, {5}}
\* A read that fills bf[1024] of cmdout2qtarget
Full == [i \in 1 .. BufSize |-> IF i = 1 THEN IAC ELSE 65]
FlushReads == {Read(Full), Failed(0, ""), Failed(-1, "EAGAIN")}
ErrReads == {Read(<<65>>), Failed(0, ""), Failed(-1, "EIO")}

XInit ==
    \E telnet \in {0, 2} :
        Started("device", telnet, FALSE, TRUE, FALSE, XTERM, <<FALSE, FALSE, 0, FALSE>>)

XNext ==
    \/ Doconnect
    \/ Attempt("ok")
    \/ \E how \in {"started", "failed"} : Connected(how, 0)
    \/ \E fired \in ExitFired :
          fired \subseteq {4, 5} \cup Readable /\ BridgePoll(fired)
    \/ \E rd \in ExitReads : BridgeCmderr(rd)
    \/ \E c \in ExitKeys, k \in ExitMenu : BridgeConsole(c, k, 0)
    \/ \E rd \in ExitReads : BridgeTarget(rd)
    \/ \E rd \in ExitReads : BridgeCmdout(rd)
    \/ BridgeWrite(Wrote(getq(qtarget)))
    \/ ExitClose
    \/ \E rd \in FlushReads : FlushCmdout(rd)
    \/ \E rd \in ErrReads : FlushCmderr(rd)
    \/ \E sent \in 0 .. Len(try) : Reap(sent)

SpecExit == XInit /\ [][XNext]_vars

\* The program goes on as long as it has a step to take
SpecExitFair == SpecExit /\ WF_vars(XNext)

----------------------------------------------------------------------------
(* SpecWinch: main's loop with telnet on and SIGWINCH arriving at any point,
   the top of the loop and poll being separate steps *)

WinchKeys == {65, COMMAND}
WinchMenu == {KeyS, KeyBackslash, KeyWinch, HelpWinch}
WinchReads == {Read(<<65>>), Read(<<IAC, DO, NAWS>>)}
WinchSizes == {<<80, 24>>, <<132, 43>>}

WInit ==
    \E telnet \in {1, 2}, term \in {NULL, VT100},
       opt \in {<<FALSE, FALSE, 0, FALSE>>, <<FALSE, FALSE, 1, FALSE>>, <<FALSE, FALSE, 2, FALSE>>} :
        Started("device", telnet, FALSE, FALSE, FALSE, term, opt)

WNext ==
    \/ Doconnect
    \/ Attempt("ok")
    \/ Connected("started", 0)
    \/ pc # "m_polling" /\ availq(qtarget) <= MaxHeld /\ Winch
    \/ availq(qtarget) <= MaxHeld /\ WinchInPoll
    \/ \E ws \in WinchSizes : MainTop(ws)
    \/ PollEnter
    \/ \E fired \in MainFired :
          fired \subseteq {2} \cup Readable /\ PollReturn(fired)
    \/ \E c \in WinchKeys, k \in WinchMenu : MainConsole(c, k, "blank")
    \/ \E rd \in WinchReads : MainTarget(rd)
    \/ MainWrite(Wrote(getq(qtarget)))

SpecWinch == WInit /\ [][WNext]_vars

----------------------------------------------------------------------------
(* SpecFlow: an FX command started at connect, with reads that fill the queues *)

\* n bytes, each c
Run_of(n, c) == [i \in 1 .. n |-> c]

\* The child writes once it has taken its input: IACs, which each take two
\* bytes of qtarget under telnet
FlowCmdoutReads == IF availq(qcmdin) = 0 THEN {Read(Run_of(BufSize - 1, IAC))} ELSE {}

\* A half-duplex target: it sends plain bytes only while nothing is queued for
\* it and, once, a request that the opening batch and a refusal answer
FlowTargetReads ==
    (IF availq(qtarget) = 0 THEN {Read(Run_of(BufSize, 65))} ELSE {})
    \cup (IF nc.telnet # 0 /\ ~ctx.initialized THEN {Read(<<IAC, DO, NAWS>>)} ELSE {})

\* write() takes the whole chunk or, when the chunk starts the buffer, its
\* first PartLen bytes
PartLen == 600
FlowWrites(q) ==
    {Wrote(getq(q))} \cup (IF q.head = 0 /\ getq(q) > PartLen THEN {Wrote(PartLen)} ELSE {})

FlowFired == {{}, {1}, {2}, {3}, {2, 3}, {4}, {5}}

\* poll reports a descriptor to read only while qtarget holds at most MaxFill bytes
FlowReadable == IF availq(qtarget) <= MaxFill THEN 0 .. 3 ELSE {}

FInit ==
    \E telnet \in {0, 2} :
        Started("device", telnet, FALSE, TRUE, FALSE, XTERM, <<FALSE, FALSE, 0, FALSE>>)

FNext ==
    \/ Doconnect
    \/ Attempt("ok")
    \/ \E how \in {"started", "failed"} : Connected(how, 0)
    \/ \E fired \in FlowFired :
          fired \subseteq {4, 5} \cup FlowReadable /\ BridgePoll(fired)
    \/ \E k \in {KeyX, KeyDied} : BridgeConsole(COMMAND, k, 0)
    \/ \E rd \in FlowTargetReads : BridgeTarget(rd)
    \/ \E rd \in FlowCmdoutReads : BridgeCmdout(rd)
    \/ BridgeCmdin(Wrote(getq(qcmdin)))
    \/ \E wr \in FlowWrites(qtarget) : BridgeWrite(wr)
    \/ BridgeExit(<<>>)
    \/ \E fired \in {{}, {2}} : MainPoll(<<>>, fired)
    \/ \E wr \in FlowWrites(qtarget) : MainWrite(wr)

SpecFlow == FInit /\ [][FNext]_vars

----------------------------------------------------------------------------
(* Claims about the queue, under SpecQueue *)

\* C1: the queue is FIFO. Logical byte i is at data[(head + i) % size] and is
\* the i-th byte put and not yet removed, and the chunk a getq or a dequeue
\* hands out is the next bytes put, in the order they were put.
C1_Fifo ==
    /\ \A i \in 0 .. qtarget.count - 1 :
          qtarget.data[(qtarget.head + i) % qtarget.size] = ByteOf(ngot + i)
    /\ last.op \in {"getq", "dequeue"} =>
          last.out = [i \in 1 .. Len(last.out) |-> ByteOf(last.ngot + i - 1)]

\* C2: 0 <= count <= size in every state, and a delq(n) with n < 0 or
\* n >= count leaves head = 0 and count = 0.
C2_QueueInvariant ==
    /\ 0 <= qtarget.count
    /\ qtarget.count <= qtarget.size
    /\ (last.op = "delq" /\ (last.c < 0 \/ last.c >= last.count)) =>
          (qtarget.head = 0 /\ qtarget.count = 0)

\* C2 witness: delq(600) emptied a queue of at most 600 bytes whose head was not 0
C2_Witness ==
    /\ last.op = "delq"
    /\ last.c = 600
    /\ last.count \in 1 .. 600
    /\ last.head > 0
    /\ qtarget.count = 0

----------------------------------------------------------------------------
(* Claims about the telnet processor *)

\* The string a char * points at, without its terminating NUL
TermBytes(t) == SubSeq(t, 1, Len(t) - 1)

\* The opening batch for a context, as the specification lists it
OpeningBatch(c) ==
    <<IAC, DO, SGA, IAC, WILL, SGA>>
    \o (IF c.termtype # NULL THEN <<IAC, WILL, TTYPE>> ELSE <<>>)
    \o <<IAC, DO, SECHO>>
    \o (IF c.binary THEN <<IAC, DO, BINARY, IAC, WILL, BINARY>> ELSE <<>>)
    \o (IF c.willnaws THEN <<IAC, WILL, NAWS>> ELSE <<>>)

\* s starts with the three bytes IAC a b
StartsWith(s, a, b) ==
    Len(s) >= 3 /\ s[1] = IAC /\ s[2] = a /\ s[3] = b

\* C3 (SpecRT): a console sequence sent byte by byte through tx_telnet and its
\* caller, written to the target and fed back byte by byte to rx_telnet on the
\* session that has received nothing yet, is delivered exactly as it was sent,
\* in binary and in ASCII mode.
C3_RoundTrip ==
    (pc = "done" /\ script # <<>>) => Delivered = script

\* C3 witness: 0x41 0xFF 0x42 went out as four bytes and came back as three
C3_Witness ==
    /\ pc = "done"
    /\ script = <<65, 255, 66>>
    /\ wire = <<65, 255, 255, 66>>
    /\ Delivered = <<65, 255, 66>>

\* C4 as claimed: whatever byte is processed in state IAC while the session is
\* not initialized, the opening batch is enqueued and initialized is set.
C4_AnySecondByte ==
    (last.op = "rx" /\ last.ctx.state = IAC /\ ~last.ctx.initialized) =>
        (Enqueued = OpeningBatch(last.ctx) /\ ctx.initialized)

\* C4 amended: a byte other than IAC processed in state IAC while the session is
\* not initialized enqueues exactly the opening batch, in the listed order, and
\* sets initialized; an escaped IAC in that state enqueues nothing and leaves
\* initialized; initialized is never cleared and no other call enqueues bytes
\* starting with IAC DO SGA, so the batch is emitted once.
C4_OpeningBatch ==
    /\ (last.op = "rx" /\ last.ctx.state = IAC /\ ~last.ctx.initialized /\ last.c # IAC) =>
          (Enqueued = OpeningBatch(last.ctx) /\ ctx.initialized)
    /\ (last.op = "rx" /\ last.ctx.state = IAC /\ last.c = IAC) =>
          (Enqueued = <<>> /\ ctx.initialized = last.ctx.initialized)
    /\ (last.op \in {"rx", "tx", "resize"} /\ last.ctx.initialized) =>
          (ctx.initialized /\ ~StartsWith(Enqueued, DO, SGA))
    /\ (last.op \in {"rx", "tx", "resize"} /\ ~last.ctx.initialized /\ ctx.initialized) =>
          (last.op = "rx" /\ last.ctx.state = IAC /\ last.c # IAC)

\* C4 witness: the full batch of a binary session with a terminal type and NAWS
C4_Witness ==
    /\ last.op = "rx"
    /\ last.ctx.state = IAC
    /\ ~last.ctx.initialized
    /\ ctx.initialized
    /\ ctx.binary
    /\ ctx.termtype = VT100
    /\ ctx.willnaws
    /\ Enqueued = <<255, 253, 3, 255, 251, 3, 255, 251, 24, 255, 253, 1,
                    255, 253, 0, 255, 251, 0, 255, 251, 31>>

\* C5 as claimed: rx_telnet returns true only for a byte processed in state 0.
C5_OnlyGround ==
    (last.op = "rx" /\ last.ret) => last.ctx.state = 0

\* C5 amended: rx_telnet returns true only for a byte processed in state 0 or
\* for an IAC processed in state IAC (the escaped 0xFF); every other byte
\* processed in a state other than 0 is swallowed.
C5_GroundOrEscapedIac ==
    (last.op = "rx" /\ last.ret) =>
        (last.ctx.state = 0 \/ (last.ctx.state = IAC /\ last.c = IAC))

\* C5 witness: an escaped 0xFF was delivered from state IAC
C5_Witness ==
    /\ last.op = "rx"
    /\ last.ctx.state = IAC
    /\ last.c = IAC
    /\ last.ret
    /\ ctx.state = 0

\* C6 (SpecRT): in ASCII mode tx_telnet(CR) enqueues exactly CR NUL and returns
\* false; a CR received in state 0 and followed by NUL is delivered and the NUL
\* swallowed; a CR received in state 0 and followed by a byte other than NUL and
\* IAC is delivered and so is that byte.
C6_CrExpansion ==
    /\ (last.op = "tx" /\ last.c = CR /\ ~ctx.binary) =>
          (Enqueued = <<CR, NUL>> /\ ~last.ret)
    /\ \A i \in 1 .. Len(rets) - 1 :
          (~ctx.binary /\ sts[i] = 0 /\ wire[i] = CR) =>
             /\ rets[i]
             /\ wire[i + 1] = NUL => ~rets[i + 1]
             /\ wire[i + 1] \notin {NUL, IAC} => rets[i + 1]

\* C6 witness: a console CR went out as CR NUL and came back as one CR
C6_Witness ==
    /\ ~ctx.binary
    /\ script = <<CR>>
    /\ wire = <<CR, NUL>>
    /\ rets = <<TRUE, FALSE>>
    /\ pc = "done"

\* C7 (SpecRT): a NUL received in state 0 is swallowed only in ASCII mode and
\* only if the byte received immediately before it was a CR.
C7_NulOnlyRightAfterCr ==
    \A i \in 1 .. Len(rets) :
        (sts[i] = 0 /\ wire[i] = NUL /\ ~rets[i]) =>
            (~ctx.binary /\ i > 1 /\ wire[i - 1] = CR)

\* C8: IAC SB TTYPE 1 IAC SE received back to back by an initialized session in
\* state 0 with a terminal type enqueues exactly IAC SB TTYPE 0, the terminal
\* type's bytes as they are, IAC SE, delivers none of the six bytes and leaves
\* state 0; a byte other than 1 received as the TTYPE suboption command
\* enqueues nothing.
C8_TermTypeReply ==
    /\ (tt.m = 6 /\ tt.x = 1) =>
          /\ tt.enq = <<IAC, SB, TTYPE, 0>> \o TermBytes(ctx.termtype) \o <<IAC, SE>>
          /\ ~tt.dlv
          /\ ctx.state = 0
    /\ (tt.m = 6 /\ tt.x = 1 /\ ctx.termtype = VT100) =>
          tt.enq = <<255, 250, 24, 0, 118, 116, 49, 48, 48, 255, 240>>
    /\ (tt.m \in 4 .. 6 /\ tt.x # 1) => tt.enq = <<>>
    /\ (last.op = "rx" /\ last.ctx.state = SBTT /\ last.c # 1) => Enqueued = <<>>

\* C8 witness: the request was received whole by a session whose terminal type is vt100
C8_Witness ==
    /\ tt.m = 6
    /\ tt.x = 1
    /\ ctx.termtype = VT100
    /\ Len(tt.enq) = 11

\* The window-size suboption for width w and height h, as the specification gives it
Stuffed(b) == IF b = 255 THEN <<255, 255>> ELSE <<b>>
NawsFrame(w, h) ==
    <<IAC, SB, NAWS>>
    \o Stuffed(w \div 256) \o Stuffed(w % 256)
    \o Stuffed(h \div 256) \o Stuffed(h % 256)
    \o <<IAC, SE>>

Clamped(v, lo) ==
    IF v < lo THEN lo ELSE IF v > 65535 THEN 65535 ELSE v

\* C9 (SpecNaws): resize_telnet(cols, rows) stores min(max(cols, 8), 65535) and
\* min(max(rows, 2), 65535), each as a high and a low byte, and what it
\* announces (once the server said DO NAWS) carries these values.
C9_NawsClamp ==
    last.op = "resize" =>
        /\ {ctx.hicols, ctx.locols, ctx.hirows, ctx.lorows} \subseteq 0 .. 255
        /\ ctx.hicols * 256 + ctx.locols = Clamped(last.c, 8)
        /\ ctx.hirows * 256 + ctx.lorows = Clamped(last.c2, 2)
        /\ (last.ctx.willnaws /\ last.ctx.donaws) =>
              Enqueued = NawsFrame(Clamped(last.c, 8), Clamped(last.c2, 2))

\* C9 witness: resize_telnet(70000, 0) announced 65535 columns and 2 rows
C9_Witness ==
    /\ last.op = "resize"
    /\ last.c = 70000
    /\ last.c2 = 0
    /\ last.ctx.donaws
    /\ Enqueued = <<255, 250, 31, 255, 255, 255, 255, 0, 2, 255, 240>>

\* C10 (SpecNaws): whatever a call enqueues that starts with IAC SB NAWS is
\* exactly IAC SB NAWS, the four bytes hi(cols) lo(cols) hi(rows) lo(rows) with
\* each 0xFF doubled, IAC SE; accepting DO NAWS and a resize after it enqueue
\* exactly that and nothing else.
C10_NawsWireFormat ==
    LET frame == NawsFrame(ctx.hicols * 256 + ctx.locols, ctx.hirows * 256 + ctx.lorows)
    IN  /\ (last.op \in {"rx", "tx", "resize"} /\ StartsWith(Enqueued, SB, NAWS)) =>
              Enqueued = frame
        /\ (last.op = "rx" /\ last.ctx.state = DO /\ last.c = NAWS /\ last.ctx.willnaws) =>
              Enqueued = frame
        /\ (last.op = "resize" /\ last.ctx.willnaws /\ last.ctx.donaws) =>
              Enqueued = frame

\* C10 witness: DO NAWS was accepted with 255 columns, the low byte doubled on the wire
C10_Witness ==
    /\ last.op = "rx"
    /\ last.ctx.state = DO
    /\ last.c = NAWS
    /\ ctx.donaws
    /\ ctx.hicols = 0
    /\ ctx.locols = 255
    /\ ctx.lorows = 2
    /\ Enqueued = <<255, 250, 31, 0, 255, 255, 0, 2, 255, 240>>

----------------------------------------------------------------------------
(* Claims about the loop of run(), under SpecFlow *)

\* The handlers of run()'s loop
InBridge(at) == at \in {"b_cmderr", "b_console", "b_target", "b_cmdout", "b_cmdin", "b_write"}

\* C11 as stated (SpecFlow): the child's stdout is read only while qtarget holds
\* fewer than 4096 bytes, and the target is read for qcmdin only while qcmdin
\* holds fewer than 4096 bytes.
C11_NoReadAtMark ==
    /\ (last.op = "cmdout" /\ last.pc = "b_cmdout") => last.count < HighWater
    /\ (last.op = "target" /\ last.pc = "b_target") => last.nin < HighWater

\* C11 (SpecFlow): at the top of every pass of run()'s loop the target is
\* registered for reading iff qcmdin holds fewer than 4096 bytes and the child's
\* stdout iff qtarget holds fewer than 4096 bytes; within the pass a producer is
\* read only if it was registered; and no queue's count exceeds its capacity.
C11_Backpressure ==
    /\ (last.op = "poll" /\ last.pc = "bridge") =>
          /\ 2 \in p.events <=> last.nin < HighWater
          /\ 3 \in p.events <=> last.count < HighWater
    /\ pc = "b_target" => 2 \in p.events
    /\ pc = "b_cmdout" => 3 \in p.events
    /\ (last.op = "target" /\ last.pc = "b_target") => 2 \in p.events
    /\ (last.op = "cmdout" /\ last.pc = "b_cmdout") => 3 \in p.events
    /\ qtarget.count <= qtarget.size
    /\ qcmdin.count <= qcmdin.size

\* C11 witness: a pass starts with qtarget at or above the mark, so the child's
\* stdout is not registered, and poll reports the target writable
C11_Witness ==
    /\ last.op = "poll"
    /\ last.pc = "bridge"
    /\ last.count >= HighWater
    /\ 3 \notin p.events
    /\ pc = "b_write"

\* C12 (SpecFlow): bytes are added to qtarget only by a handler that started
\* with qtarget below the high-water mark, so qtarget never holds more than the
\* mark plus what one read can add (each of the 1024 bytes read doubled).
C12_BoundedEgress ==
    /\ (last.op \in {"console", "target", "cmdout"} /\ InBridge(last.pc)
           /\ qtarget.count > last.count) => last.count < HighWater
    /\ qtarget.count < HighWater + 2 * BufSize

----------------------------------------------------------------------------
(* Claims about doconnect and main's loop, under SpecConnect *)

\* read() or write() on the target in main's loop returned -1 for a transient reason
Transient ==
    /\ last.op \in {"target", "write"}
    /\ last.pc \in {"m_target", "m_write"}
    /\ last.r.n < 0
    /\ last.r.errno \in {"EAGAIN", "EINTR"}

\* C13 (SpecConnect): after a read or a write on the target in main's loop that
\* would block or was interrupted, the loop goes on (no doconnect, no exit) and
\* qtarget is as it was.
C13_TransientRetried ==
    Transient => /\ pc \notin {"doconnect", "connect", "exit"}
                 /\ qtarget.count = last.count

\* C14 (SpecConnect): right after every successful connect qtarget is empty
\* (count 0, head 0, so nothing queued before the connect can be written to the
\* new connection) and, with telnet, the context is the initial one: state 0,
\* not initialized, no CR pending, willnaws and donaws unset.
C14_ReconnectReset ==
    (last.op = "attempt" /\ pc = "connected") =>
        /\ qtarget.count = 0
        /\ qtarget.head = 0
        /\ Contents(qtarget) = <<>>
        /\ nc.telnet # 0 =>
              /\ ctx.state = 0
              /\ ~ctx.initialized
              /\ ~ctx.wascr
              /\ ~ctx.willnaws
              /\ ~ctx.donaws

\* C14 witness: a reconnect succeeded with bytes queued and a negotiated telnet
\* context from the connection before
C14_Witness ==
    /\ last.op = "attempt"
    /\ pc = "connected"
    /\ last.count > 0
    /\ last.g.target # 0
    /\ nc.telnet # 0
    /\ last.ctx.initialized
    /\ last.ctx.willnaws
    /\ qtarget.count = 0
    /\ ~ctx.initialized

\* read() on the target in main's loop returned 0 (closed) or -1 with an error
\* that is not transient
ReadFailed ==
    /\ last.op = "target"
    /\ last.pc = "m_target"
    /\ last.r.n <= 0
    /\ last.r.errno \notin {"EAGAIN", "EINTR"}

\* C15 (SpecConnect): after a failed read on the target in main's loop the next
\* step is doconnect, which ends the process with status 1 if reconnect is off
\* and otherwise closes the target and connects again; until a connect has
\* succeeded the target is closed and no handler of the loop runs.
C15_ReadFailure ==
    /\ ReadFailed => pc = "doconnect"
    /\ (last.op = "doconnect" /\ last.g.target # 0) =>
          /\ ~nc.open
          /\ IF last.g.reconnect THEN pc = "connect"
             ELSE pc = "exit" /\ nc.status = 1
    /\ pc = "connect" => ~nc.open
    /\ pc \in {"m_console", "m_target", "m_write", "main", "connected"} => nc.open
    /\ (last.op \in {"target", "write"} /\ last.pc \in {"m_target", "m_write"}) => last.g.open

\* C15 witness: the target closed the connection (read returned 0) with a
\* byte queued and reconnect on; doconnect is next
C15_Witness ==
    /\ ReadFailed
    /\ last.r.n = 0
    /\ nc.reconnect
    /\ qtarget.count > 0
    /\ pc = "doconnect"

\* The process has ended with failure status
Died == pc = "exit" /\ nc.status = 1

\* C16 as stated (SpecConnect): after a failed attempt the process ends with
\* status 1 if reconnect is off or, for a socket, if connect failed with
\* anything but ECONNREFUSED or ETIMEDOUT; otherwise it tries again.
C16_RefusedOrTimedOut ==
    (last.op = "attempt" /\ last.r.n < 0) =>
        IF ~last.g.reconnect THEN Died
        ELSE IF last.g.kind = "socket" /\ last.r.errno \notin {"ECONNREFUSED", "ETIMEDOUT"}
        THEN Died
        ELSE pc = "connect"

\* C16 (SpecConnect): after a failed attempt the process ends with status 1 if
\* the failure is one doconnect dies on (host not resolved, no socket, device
\* not configurable), if reconnect is off or, for a socket, if connect failed
\* with anything but ECONNREFUSED, ETIMEDOUT or ENETUNREACH, which also clears
\* reconnect; otherwise reconnect stays set and it tries again.
C16_RetryPolicy ==
    (last.op = "attempt" /\ last.r.n < 0) =>
        IF last.r.errno = "die" \/ ~last.g.reconnect THEN Died
        ELSE IF last.g.kind = "socket"
                /\ last.r.errno \notin {"ECONNREFUSED", "ETIMEDOUT", "ENETUNREACH"}
        THEN Died /\ ~nc.reconnect
        ELSE pc = "connect" /\ nc.reconnect /\ ~nc.open

\* C16 witness: with reconnect on, connect failed with ENETUNREACH and
\* doconnect is about to try again
C16_Witness ==
    /\ last.op = "attempt"
    /\ last.r.errno = "ENETUNREACH"
    /\ last.g.reconnect
    /\ pc = "connect"
    /\ nc.reconnect

\* What the specification has one application byte put on the egress queue:
\* with telnet, IAC doubled and, in ASCII mode (telnet = 2), CR followed by NUL
Escaped(telnet, c) ==
    IF telnet # 0 /\ c = IAC THEN <<IAC, IAC>>
    ELSE IF telnet = 2 /\ c = CR THEN <<CR, NUL>>
    ELSE <<c>>

\* The bytes of bf in order, each escaped
EscapedAll(telnet, bf) ==
    Flat([i \in 1 .. Len(bf) |-> Escaped(telnet, bf[i])], 1, Len(bf))

\* C17 (SpecFlow): with telnet, when the bytes read from the command's stdout
\* enter qtarget, qtarget holds what it held, in the same order, followed by
\* those bytes in the order read, each 0xFF doubled and, in ASCII mode, each CR
\* followed by NUL.
C17_EgressEscaping ==
    [][(pc = "b_cmdout" /\ nc.telnet # 0) =>
          Contents(qtarget') = Contents(qtarget) \o EscapedAll(nc.telnet, last'.bf)]_vars

----------------------------------------------------------------------------
(* Claims about the handlers of the two loops, under SpecLoop *)

\* decode_incoming applied once to each byte of bf from index i on, in order,
\* starting in context c_: the context it ends in and the bytes it reported
\* true for (without telnet there is no context and every byte is reported)
RECURSIVE Decoded(_, _, _, _)
Decoded(telnet, c_, bf, i) ==
    IF i > Len(bf) THEN [ctx |-> c_, out |-> <<>>]
    ELSE LET r == IF telnet = 0 THEN [ctx |-> c_, ret |-> TRUE]
                  ELSE rx_telnet(c_, EmptyQueue, bf[i])
             rest == Decoded(telnet, r.ctx, bf, i + 1)
         IN  [ctx |-> rest.ctx, out |-> (IF r.ret THEN <<bf[i]>> ELSE <<>>) \o rest.out]

\* The last n bytes of the sequence s
Last(s, n) == SubSeq(s, Len(s) - n + 1, Len(s))

\* C18 (SpecLoop): the bytes of a read from the target go through
\* decode_incoming once each, in order: the context after the read is the one
\* that leaves, and exactly the bytes reported true are handed on, in order, to
\* the display by main's loop (qcmdin untouched) and to the end of qcmdin by
\* run()'s loop.
C18_IngressFiltering ==
    (last.op = "target" /\ last.r.n > 0) =>
        LET d == Decoded(last.g.telnet, last.ctx, last.bf, 1)
        IN  /\ ctx = d.ctx
            /\ last.out = d.out
            /\ last.pc = "m_target" => qcmdin.count = last.nin
            /\ last.pc = "b_target" =>
                  /\ qcmdin.count = last.nin + Len(d.out)
                  /\ Last(Contents(qcmdin), Len(d.out)) = d.out

\* C18 witness: with a command running in ASCII mode the target sent CR NUL A;
\* the NUL was swallowed and CR A went to qcmdin
C18_Witness ==
    /\ last.op = "target"
    /\ last.pc = "b_target"
    /\ last.g.telnet = 2
    /\ last.bf = <<CR, NUL, 65>>
    /\ last.out = <<CR, 65>>
    /\ qcmdin.count = last.nin + 2

----------------------------------------------------------------------------
(* Claims about window-size announcements, under SpecNaws *)

\* The window-size suboption for the size a context records
Announced(c_) ==
    NawsFrame(c_.hicols * 256 + c_.locols, c_.hirows * 256 + c_.lorows)

\* C19 (SpecNaws): DO NAWS is accepted iff WILL NAWS was offered, and accepting
\* it sends the recorded size once, at once; a geometry change sends the new
\* size iff the server has said DO NAWS; the first geometry change offers
\* WILL NAWS itself only if the session is initialized (otherwise the opening
\* batch offers it) and sends no size; and no size is ever sent while the
\* server has not said DO NAWS.
C19_NawsAnnouncements ==
    /\ (last.op = "rx" /\ last.ctx.state = DO /\ last.c = NAWS) =>
          IF last.ctx.willnaws
          THEN ctx.donaws /\ Enqueued = Announced(ctx)
          ELSE ctx.donaws = last.ctx.donaws /\ Enqueued = <<IAC, WONT, NAWS>>
    /\ last.op = "resize" =>
          /\ ctx.willnaws
          /\ ctx.donaws = last.ctx.donaws
          /\ ctx.hicols * 256 + ctx.locols = Clamped(last.c, 8)
          /\ ctx.hirows * 256 + ctx.lorows = Clamped(last.c2, 2)
          /\ Enqueued = IF ~last.ctx.willnaws
                        THEN (IF last.ctx.initialized THEN <<IAC, WILL, NAWS>> ELSE <<>>)
                        ELSE IF last.ctx.donaws THEN Announced(ctx)
                        ELSE <<>>
    /\ (last.op = "rx" /\ ~last.ctx.initialized /\ ctx.initialized) =>
          (last.ctx.willnaws <=>
              Len(Enqueued) >= 3 /\ Last(Enqueued, 3) = <<IAC, WILL, NAWS>>)
    /\ (last.op \in {"rx", "tx", "resize"} /\ StartsWith(Enqueued, SB, NAWS)) => ctx.donaws

\* C19 witness: the first geometry change came on a session already
\* initialized: it recorded the size and offered WILL NAWS, no size sent
C19_Witness ==
    /\ last.op = "resize"
    /\ ~last.ctx.willnaws
    /\ last.ctx.initialized
    /\ last.c = 255
    /\ ctx.willnaws
    /\ ctx.locols = 255
    /\ Enqueued = <<IAC, WILL, NAWS>>

\* C20 (SpecLoop): while an FX command runs, a console key other than the
\* command key is written to cmderr and, when the write succeeds, the loop of
\* run() goes on; the command key is written only if the menu key is \, and the
\* menu key x leaves the loop with aborted set.
C20_ConsoleToCommand ==
    (last.op = "console" /\ last.pc = "b_console") =>
        LET c == last.bf[1]
        IN  /\ (c \notin {-1, COMMAND} /\ last.r = 0) =>
                  /\ last.out = <<c>>
                  /\ pc \notin {"b_exit", "exit"}
                  /\ nc.running
            /\ c = COMMAND =>
                  /\ last.bf[2] # KeyBackslash => last.out = <<>>
                  /\ last.bf[2] = KeyX => pc = "b_exit" /\ nc.aborted

----------------------------------------------------------------------------
(* Claims about the start command, under SpecStart *)

----------------------------------------------------------------------------
(* Claims about the option and suboption states of rx_telnet, under Spec *)

\* The last operation was rx_telnet called in state st
RxIn(st) == last.op = "rx" /\ last.ctx.state = st

\* C22 (Spec): the byte after IAC WILL takes rx_telnet back to state 0 and is
\* not delivered; nothing is enqueued for SGA and ECHO, nothing for BINARY on a
\* binary session and IAC DONT BINARY on an ASCII one, and IAC DONT <opt> for
\* every other option.
C22_WillHandling ==
    RxIn(WILL) =>
        /\ ctx = [last.ctx EXCEPT !.state = 0]
        /\ ~last.ret
        /\ Enqueued = IF last.c \in {SGA, SECHO} THEN <<>>
                      ELSE IF last.c = BINARY
                      THEN (IF last.ctx.binary THEN <<>> ELSE <<IAC, DONT, BINARY>>)
                      ELSE <<IAC, DONT, last.c>>

\* C22 witness: the server said WILL ECHO on an ASCII session and got no reply
C22_Witness ==
    /\ RxIn(WILL)
    /\ last.c = SECHO
    /\ ~last.ctx.binary
    /\ ctx.state = 0
    /\ Enqueued = <<>>

\* C23 (Spec): the byte after IAC DO takes rx_telnet back to state 0 and is not
\* delivered; nothing is enqueued for SGA, for BINARY on a binary session and
\* for TTYPE when a terminal type is configured; for NAWS with willnaws set,
\* donaws is set and the window-size suboption for the recorded size is
\* enqueued; everything else gets exactly IAC WONT <opt>.
C23_DoHandling ==
    RxIn(DO) =>
        /\ ctx.state = 0
        /\ ~last.ret
        /\ IF last.c = NAWS /\ last.ctx.willnaws
           THEN /\ ctx = [last.ctx EXCEPT !.state = 0, !.donaws = TRUE]
                /\ Enqueued = Announced(last.ctx)
           ELSE /\ ctx = [last.ctx EXCEPT !.state = 0]
                /\ Enqueued =
                      IF \/ last.c = SGA
                         \/ last.c = BINARY /\ last.ctx.binary
                         \/ last.c = TTYPE /\ last.ctx.termtype # NULL
                      THEN <<>>
                      ELSE <<IAC, WONT, last.c>>

\* C23 witness: the server said DO TTYPE to a session without a terminal type
\* and was refused
C23_Witness ==
    /\ RxIn(DO)
    /\ last.c = TTYPE
    /\ last.ctx.termtype = NULL
    /\ ctx.state = 0
    /\ Enqueued = <<IAC, WONT, TTYPE>>

----------------------------------------------------------------------------
(* Claims about the passes of the two loops, under SpecLoop *)

\* C24 (SpecLoop): a write step of main's loop that finds qtarget empty, so
\* that no write() on the target is made, does not leave the loop for doconnect
\* and does not end the process.
C24_NoTeardownOnEmptyQueue ==
    (last.op = "write" /\ last.pc = "m_write" /\ last.count = 0) =>
        pc \notin {"doconnect", "connect", "exit"}

\* C25 (SpecLoop): when a signal interrupts poll in run()'s loop, the loop
\* goes on to another pass and the command keeps running.
C25_InterruptedPollRetried ==
    (last.op = "poll" /\ last.pc = "bridge" /\ last.r.errno = "EINTR") =>
        pc = "bridge" /\ nc.running

\* The states of rx_telnet
States == {0, IAC, WILL, WONT, DO, DONT, SB, SBTT, SBX, SE}

\* C26 (Spec): rx_telnet enqueues nothing for the byte after IAC WONT or IAC
\* DONT, for a byte after IAC that is no command (nothing but the opening batch
\* if the session was not initialized), and for the bytes of a suboption other
\* than the command byte 1 of a TTYPE suboption; after the first three it is in
\* state 0; and the state is always one of the ten.
C26_SilentAbsorption ==
    /\ ctx.state \in States
    /\ (RxIn(WONT) \/ RxIn(DONT)) =>
          /\ Enqueued = <<>>
          /\ ~last.ret
          /\ ctx = [last.ctx EXCEPT !.state = 0]
    /\ (RxIn(IAC) /\ last.c \notin {IAC, SB, WILL, WONT, DO, DONT}) =>
          /\ Enqueued = IF last.ctx.initialized THEN <<>> ELSE OpeningBatch(last.ctx)
          /\ ~last.ret
          /\ ctx.state = 0
    /\ (RxIn(SB) \/ RxIn(SBX) \/ RxIn(SE) \/ (RxIn(SBTT) /\ last.c # 1)) =>
          /\ Enqueued = <<>>
          /\ ~last.ret

\* C26 witness: the server refused an option with IAC WONT on a session with
\* bytes still queued; nothing was added
C26_Witness ==
    /\ RxIn(WONT)
    /\ last.c = TTYPE
    /\ last.count > 0
    /\ ctx.state = 0
    /\ Enqueued = <<>>

\* C27 (Spec): no byte of a suboption is delivered, and its states follow the
\* bracketing: the first byte leads to SE if it is IAC, to SBTT if it is TTYPE
\* and a terminal type is configured, else to SBX; the TTYPE command byte leads
\* to SE if it is IAC, else to SBX; in SBX only IAC leads on, to SE; and after
\* that IAC only SE ends the suboption, any other byte leads back to SBX.
C27_SubOptionBracketing ==
    /\ RxIn(SB) =>
          /\ ~last.ret
          /\ ctx.state = IF last.c = IAC THEN SE
                         ELSE IF last.c = TTYPE /\ last.ctx.termtype # NULL THEN SBTT
                         ELSE SBX
    /\ RxIn(SBTT) => ~last.ret /\ ctx.state = IF last.c = IAC THEN SE ELSE SBX
    /\ RxIn(SBX) => ~last.ret /\ ctx.state = IF last.c = IAC THEN SE ELSE SBX
    /\ RxIn(SE) => ~last.ret /\ ctx.state = IF last.c = SE THEN 0 ELSE SBX
    /\ (last.op = "rx" /\ last.ctx.state \in {SB, SBTT, SBX, SE} /\ ctx.state = 0) =>
          last.ctx.state = SE /\ last.c = SE

\* C27 witness: inside a suboption an IAC was followed by another IAC, and the
\* decoder went back to discarding
C27_Witness ==
    /\ RxIn(SE)
    /\ last.c = IAC
    /\ ~last.ret
    /\ ctx.state = SBX

\* C28 (Spec): for IAC, tx_telnet enqueues IAC IAC and returns false in both
\* modes; for CR on an ASCII session it enqueues CR NUL and returns false; for
\* every other byte, and for CR on a binary session, it returns true and
\* enqueues nothing, so that the byte the caller then puts is all that is
\* added. The context is left as it was.
C28_TransmitEncoding ==
    last.op = "tx" =>
        /\ ctx = last.ctx
        /\ IF last.c = IAC
           THEN ~last.ret /\ Enqueued = <<IAC, IAC>>
           ELSE IF last.c = CR /\ ~last.ctx.binary
           THEN ~last.ret /\ Enqueued = <<CR, NUL>>
           ELSE last.ret /\ Enqueued = <<last.c>>

\* C28 witness: CR was sent on a binary session and went out alone
C28_Witness ==
    /\ last.op = "tx"
    /\ last.c = CR
    /\ last.ctx.binary
    /\ last.ret
    /\ Enqueued = <<CR>>

----------------------------------------------------------------------------
(* Claims about run() after its loop, under SpecExit *)

\* C29 (SpecExitFair): run() returns: once its loop has ended the flushes end
\* and the child is reaped or signalled, whatever the child writes meanwhile
C29_FlushTerminates ==
    (pc = "b_exit") ~> (last.op = "x_reap")

----------------------------------------------------------------------------
(* Claims about the pollfd arrays of the two loops, under SpecLoop *)

\* C30 (SpecLoop): in every pass of main's loop the target is registered for
\* writing iff qtarget is not empty when poll is called (after the resize
\* announcement of that pass, if any); in every pass of run()'s loop the target
\* is registered for writing iff qtarget is not empty and the child's stdin iff
\* qcmdin is not empty
C30_WriteInterest ==
    last.op = "poll" =>
        /\ last.pc = "main" => (2 \in p.events <=> availq(qtarget) # 0)
        /\ last.pc = "bridge" =>
              /\ 5 \in p.events <=> availq(qtarget) # 0
              /\ 4 \in p.events <=> availq(qcmdin) # 0

\* C30 witness: a pass of run()'s loop registered the child's stdin for writing
\* and not the target, qcmdin holding bytes and qtarget none
C30_Witness ==
    /\ last.op = "poll"
    /\ last.pc = "bridge"
    /\ availq(qcmdin) # 0
    /\ availq(qtarget) = 0
    /\ 4 \in p.events
    /\ 5 \notin p.events

----------------------------------------------------------------------------
(* Claims about SIGWINCH and main's loop, under SpecWinch *)

\* C31 (SpecWinch): a resize notification is acted on without waiting for
\* console or target I/O, wherever in the loop it arrives: main never sleeps in
\* poll while sigwinch is set
C31_NoSleepWithResizePending ==
    pc = "m_polling" => ~nc.sigwinch

----------------------------------------------------------------------------
(* More claims about the queue, under SpecQueue *)

\* C32 (SpecQueue): dequeue hands write() the chunk of getq, all of it; when
\* write takes r > 0 bytes the queue loses its first r bytes and nothing else
\* and r is returned; when write returns 0 or fails the queue is as it was and
\* that value is returned; on an empty queue there is no write, 0 is returned
\* and the queue is as it was
C32_DrainTo ==
    [][last'.op = "dequeue" =>
          LET n == IF qtarget.count < qtarget.size - qtarget.head
                   THEN qtarget.count ELSE qtarget.size - qtarget.head
              r == last'.r
          IN  /\ Len(last'.out) = n
              /\ r <= n
              /\ n = 0 => r = 0 /\ qtarget' = qtarget
              /\ r <= 0 => qtarget' = qtarget
              /\ r > 0 => /\ qtarget'.count = qtarget.count - r
                          /\ qtarget'.size = qtarget.size
                          /\ Contents(qtarget') =
                                SubSeq(Contents(qtarget), r + 1, qtarget.count)]_vars

\* C32 witness: write took 600 bytes of a longer chunk and the queue has 600
\* bytes less, its head 600 cells on
C32_Witness ==
    /\ last.op = "dequeue"
    /\ last.r = 600
    /\ Len(last.out) > 600
    /\ qtarget.count = last.count - 600
    /\ qtarget.head = last.head + 600

\* C33 (SpecQueue): getq on a queue that holds bytes returns the length
\* min(count, size - head) and points at the cells from head on; on an empty
\* queue it returns 0; in both cases the queue is as it was
C33_Peek ==
    [][last'.op = "getq" =>
          LET n == IF qtarget.count < qtarget.size - qtarget.head
                   THEN qtarget.count ELSE qtarget.size - qtarget.head
          IN  /\ qtarget' = qtarget
              /\ last'.r = (IF qtarget.count = 0 THEN 0 ELSE n)
              /\ Len(last'.out) = last'.r
              /\ \A i \in 1 .. last'.r :
                    last'.out[i] = qtarget.data[qtarget.head + i - 1]]_vars

\* C33 witness: getq on a queue whose bytes wrap past the end of the buffer
\* returned the run up to the end, shorter than count
C33_Witness ==
    /\ last.op = "getq"
    /\ last.r = qtarget.size - qtarget.head
    /\ last.r < qtarget.count
    /\ last.r > 0

----------------------------------------------------------------------------
(* Claims about the size of the queue's buffer, under SpecGrow *)

\* 1024 * 2^k for some k
RECURSIVE IsDoubling(_)
IsDoubling(size) ==
    size = InitialSize \/ (size > InitialSize /\ size % 2 = 0 /\ IsDoubling(size \div 2))

\* size is `from' doubled some number of times
RECURSIVE DoublingOf(_, _)
DoublingOf(size, from) ==
    size = from \/ (size > from /\ size % 2 = 0 /\ DoublingOf(size \div 2, from))

\* C34 (SpecGrow): putq of n bytes adds n to count; size changes only when
\* count + n >= size, and then to the smallest doubling of size (of 1024 when
\* size was 0) that is strictly greater than count + n; size is 0 or
\* 1024 * 2^k, and no operation makes it smaller
C34_CapacityPolicy ==
    [][/\ qtarget'.size >= qtarget.size
       /\ qtarget'.size = 0 \/ IsDoubling(qtarget'.size)
       /\ last'.op = "putq" =>
             LET n == last'.c
                 from == IF qtarget.size = 0 THEN InitialSize ELSE qtarget.size
             IN  /\ qtarget'.count = qtarget.count + n
                 /\ qtarget.count + n < qtarget.size => qtarget'.size = qtarget.size
                 /\ qtarget.count + n >= qtarget.size =>
                       /\ DoublingOf(qtarget'.size, from)
                       /\ qtarget'.size > qtarget.count + n
                       /\ \/ qtarget'.size = from
                          \/ qtarget'.size \div 2 <= qtarget.count + n]_vars

\* C34 witness: a putq from a 1024-cell buffer left a 4096-cell one, 2048 cells
\* being too few
C34_Witness ==
    /\ last.op = "putq"
    /\ last.size = InitialSize
    /\ qtarget.size = 4 * InitialSize
    /\ qtarget.count >= 2 * InitialSize

----------------------------------------------------------------------------
(* More claims about the telnet processor, under Spec and SpecNaws *)

\* C35 (Spec): while initialized is false a call of rx_telnet or resize_telnet
\* enqueues nothing, no DONT or WONT, no WILL NAWS, no terminal type and no
\* NAWS suboption, unless it is the call that sets initialized, and that call
\* enqueues the opening batch and nothing else
C35_BatchComesFirst ==
    (last.op \in {"rx", "resize"} /\ ~last.ctx.initialized) =>
        \/ Enqueued = <<>> /\ ~ctx.initialized
        \/ /\ last.op = "rx"
           /\ ctx.initialized
           /\ Enqueued = OpeningBatch(last.ctx)

\* C35 witness: resize_telnet had been called before anything was negotiated,
\* and the call of rx_telnet that set initialized enqueued the batch, WILL NAWS
\* at its end
C35_Witness ==
    /\ last.op = "rx"
    /\ ~last.ctx.initialized
    /\ last.ctx.willnaws
    /\ ctx.initialized
    /\ Enqueued = OpeningBatch(last.ctx)
    /\ SubSeq(Enqueued, Len(Enqueued) - 2, Len(Enqueued)) = <<IAC, WILL, NAWS>>

----------------------------------------------------------------------------
(* Claims about what reaches the target, under SpecFlow *)

\* C36 (SpecFlow): every byte appended to qtarget is eventually written to the
\* target, so until then it is in the queue: no cell of the live window has
\* lost the byte that was put in it
C36_NoQueuedByteLost ==
    \A j \in DOMAIN qtarget.data : qtarget.data[j] # Indeterminate

\* The width and height a context records
Width(c_) == c_.hicols * 256 + c_.locols
Height(c_) == c_.hirows * 256 + c_.lorows

\* C37 (SpecNaws): a window-size suboption is enqueued only on a session on
\* which resize_telnet has been called, and carries the size that the most
\* recent call recorded, at least 8 columns and 2 rows: the server's DO NAWS
\* is accepted only if willnaws is set, willnaws is set only by
\* resize_telnet, and rx_telnet leaves the recorded size alone
C37_NawsCarriesLastResize ==
    /\ ctx.donaws => ctx.willnaws
    /\ IF ctx.willnaws
       THEN Width(ctx) \in 8 .. 65535 /\ Height(ctx) \in 2 .. 65535
       ELSE Width(ctx) = 0 /\ Height(ctx) = 0
    /\ last.op = "resize" =>
          Width(ctx) = Clamped(last.c, 8) /\ Height(ctx) = Clamped(last.c2, 2)
    /\ last.op \in {"rx", "tx"} =>
          Width(ctx) = Width(last.ctx) /\ Height(ctx) = Height(last.ctx)
    /\ (last.op \in {"rx", "tx", "resize"} /\ StartsWith(Enqueued, SB, NAWS)) =>
          /\ ctx.willnaws
          /\ Enqueued = NawsFrame(Width(ctx), Height(ctx))

\* C37 witness: DO NAWS arrived after resize_telnet(7, 1) and was answered
\* with 8 columns and 2 rows
C37_Witness ==
    /\ last.op = "rx"
    /\ last.ctx.state = DO
    /\ last.c = NAWS
    /\ last.ctx.willnaws
    /\ Enqueued = <<IAC, SB, NAWS, 0, 8, 0, 2, IAC, SE>>

\* Where IAC WILL NAWS stands in the bytes s, a window-size suboption aside
Offers(s) ==
    IF StartsWith(s, SB, NAWS) THEN {}
    ELSE {i \in 1 .. Len(s) - 2 : s[i] = IAC /\ s[i + 1] = WILL /\ s[i + 2] = NAWS}

\* IAC WILL NAWS has been or will be sent without another call asking for it:
\* once both are set the session has offered NAWS
Offered(c_) == c_.initialized /\ c_.willnaws

\* C38 (Spec): IAC WILL NAWS is enqueued at most once on a session. A call
\* enqueues it, once, only on a session that has not offered it, and the
\* session has offered it from then on, whatever resize calls and received
\* bytes follow in whatever order
C38_WillNawsOnce ==
    [][/\ Offered(ctx) => Offered(ctx')
       /\ (last'.op \in {"rx", "tx", "resize"} /\ Offers(Enqueued') # {}) =>
             /\ ~Offered(ctx)
             /\ Offered(ctx')
             /\ Cardinality(Offers(Enqueued')) = 1]_vars

\* C38 witness: resize_telnet was called again on a session that had offered
\* NAWS and not been asked for the size, and enqueued nothing
C38_Witness ==
    /\ last.op = "resize"
    /\ Offered(last.ctx)
    /\ ~last.ctx.donaws
    /\ Enqueued = <<>>

----------------------------------------------------------------------------
(* Claims about the cells of the queue's buffer, under SpecGrow *)

\* C39 (SpecGrow): once the buffer is allocated, 0 <= head < size and
\* count < size, so that the cell the next byte goes to, (head + count) % size,
\* is not the cell at head while the queue holds bytes
C39_NeverFull ==
    qtarget.size > 0 =>
        /\ 0 <= qtarget.head
        /\ qtarget.head < qtarget.size
        /\ 0 <= qtarget.count
        /\ qtarget.count < qtarget.size
        /\ qtarget.count > 0 =>
              (qtarget.head + qtarget.count) % qtarget.size # qtarget.head

\* C39 witness: a putq whose bytes would have filled the buffer exactly made
\* it double
C39_Witness ==
    /\ last.op = "putq"
    /\ last.size > 0
    /\ last.count + last.c = last.size
    /\ qtarget.size = 2 * last.size
    /\ qtarget.count = last.size

----------------------------------------------------------------------------
(* Claims about the two directions of the telnet processor, under Spec *)

\* What rx_telnet would do with the byte c on context c_ and queue q: the
\* context it leaves, its value and the bytes it enqueues
Decoding(c_, q, c) ==
    LET r == rx_telnet(c_, q, c)
    IN  [ctx |-> r.ctx, ret |-> r.ret, enq |-> SubSeq(Contents(r.q), q.count + 1, r.q.count)]

\* C40 (Spec): tx_telnet leaves every field of the context as it was, state,
\* initialized, wascr, willnaws, donaws and the window size, so what rx_telnet
\* does with the next received byte, whichever it is, is the same after the
\* call as before it: the decoding of a received stream does not depend on
\* the tx_telnet calls made in between
C40_TransmitLeavesReceive ==
    [][last'.op = "tx" =>
          /\ ctx' = ctx
          /\ \A c \in RxBytes :
                Decoding(ctx', qtarget', c) = Decoding(ctx, qtarget, c)]_vars

\* C40 witness: CR was sent on an ASCII session that was in the middle of a
\* received command, and the decoder is where it was
C40_Witness ==
    /\ last.op = "tx"
    /\ last.c = CR
    /\ ~last.ctx.binary
    /\ last.ctx.state = DO
    /\ ctx = last.ctx
    /\ Enqueued = <<CR, NUL>>

====
